---- MODULE Spec2Model ----
(***************************************************************************)
(* Parallels shared-folders guest filesystem (prl_fs): the inode and       *)
(* dentry operations of inode.c and the mount session of super.c, as a     *)
(* state machine.  The host is an external actor: every host request is    *)
(* answered by a reply chosen from the replies a host can give.            *)
(***************************************************************************)
EXTENDS Integers, Sequences, FiniteSets, TLC

(***************************************************************************)
(* Bounds of the model.                                                    *)
(***************************************************************************)
\* jiffies and d_time are unsigned long: arithmetic is modulo JiffiesMod
JiffiesMod == 3
\* the mount option ttl ranges over 0..MaxTtl
MaxTtl == 1
\* file sizes reported by the host range over 0..MaxSize
MaxSize == 1
\* the size of the path buffer (PATH_MAX of the kernel, scaled down)
PATH_MAX == 7

\* the bits of an unsigned (32 in the kernel, scaled down)
UintBits == 8
\* the value of a numeric mount option has up to MaxDigits characters
MaxDigits == 3

\* PAGE_SIZE equals PATH_MAX on the supported platforms (both 4096)
PAGE_SIZE == PATH_MAX

(***************************************************************************)
(* Values.                                                                 *)
(***************************************************************************)
OK == "OK"
OOPS == "OOPS"          \* the call faults in the kernel and never returns
HostErrs == {"ENOENT", "EACCES"}

S_IFREG == "S_IFREG"
S_IFDIR == "S_IFDIR"
S_IFLNK == "S_IFLNK"
PRLFS_UID_NOBODY == 65534
PRLFS_GID_NOGROUP == 65534
PRL_DFL_UNLINKED == 1

\* current->cred of the calling task
Cred == [uid |-> 0, gid |-> 0, fsuid |-> 0, fsgid |-> 0]
HostTimes == {1}
HostPerms == {420}
\* the time prlfs_current_time returns
CurrentTime == 0
\* x is the dentry the calls act on; y is the dentry of the destination name
\* of a rename, which the VFS looks up, hands to rename and then releases
Sources == {"x"}
Root == "root"
d_parent == [d \in (Sources \cup {"y"}) |-> Root]
\* the name of the shared folder, sbi->name
SfName == <<"S">>
NULL == [null |-> TRUE]

VARIABLES
    jiffies,    \* the tick counter
    sbi,        \* struct prlfs_sb_info of the mount
    d_time,     \* dentry->d_time, of the dentries the calls act on
    d_fsdata,   \* dentry->d_fsdata, the flag word read through prlfs_dfl
    d_inode,    \* dentry->d_inode, NULL for a negative dentry
    d_name,     \* dentry->d_name
    d_hashed,   \* the dentry has been entered in the dcache by d_add
    last,       \* the call that has just run: verb, dentries, result, host
                \* requests and reply, the dentries as it found them, and
                \* the dentry of the destination name before and after it
    inflight,   \* the dentry of a get-attributes that has passed
                \* check_dentry and has not yet entered prlfs_i_revalidate;
                \* Root when there is none
    host_link,  \* the host's side of the shared folder, as far as the
                \* texts of its symbolic links go: the paths that hold a
                \* link, each with its text
    \* the freeze helper, prl_freeze.c
    frozen_sb,      \* the list of the frozen superblocks, head first
    frozen_mutex,   \* the task that holds the mutex, or "free"
    thaw_timer,     \* the timer is pending
    expires,        \* thaw_timer.expires, the tick a pending timer is set
                    \* to; nothing reads it of a timer that is not pending,
                    \* and it is kept as 0 then
    thaw_work,      \* the work item is queued
    s_bdev,         \* the block device of each superblock is frozen
    task,           \* where each task is in its call, and the call's data
    loaded          \* the module is loaded

\* the shared folders and the freeze helper are two modules with nothing
\* in common
prlfs ==
    <<jiffies, sbi, d_time, d_fsdata, d_inode, d_name, d_hashed, last,
      inflight, host_link>>
freezer ==
    <<frozen_sb, frozen_mutex, thaw_timer, expires, thaw_work, s_bdev, task,
      loaded>>

vars ==
    <<jiffies, sbi, d_time, d_fsdata, d_inode, d_name, d_hashed, last,
      inflight, host_link, frozen_sb, frozen_mutex, thaw_timer, expires,
      thaw_work, s_bdev, task, loaded>>

(***************************************************************************)
(* Path resolver: prepend and prlfs_get_path.                              *)
(* A position in the buffer is an offset from buf; a negative offset is a  *)
(* position before the start of the allocation.                            *)
(***************************************************************************)
\* prepend: moves the position back by namelen unless *buflen goes negative
prepend(pos, buflen, str) ==
    IF buflen - Len(str) < 0
    THEN [ret |-> "ENAMETOOLONG", pos |-> pos, buflen |-> buflen - Len(str)]
    ELSE [ret |-> OK, pos |-> pos - Len(str), buflen |-> buflen - Len(str)]

RECURSIVE DentryPath(_, _)
\* the '/'-joined names from the root down to the dentry
DentryPath(names, d) ==
    IF d = Root THEN << >>
    ELSE DentryPath(names, d_parent[d]) \o <<"/">> \o names[d]

\* the path of the dentry inside the mount
MountPath(names, d) == IF d = Root THEN <<"/">> ELSE DentryPath(names, d)

\* dentry_path_raw of a dentry whose path inside the mount is path: the
\* path is written at the end of the buffer
RawAt(path, buflen) ==
    IF Len(path) + 1 > buflen
    THEN [err |-> TRUE, pos |-> 0, str |-> << >>]
    ELSE [err |-> FALSE, pos |-> buflen - (Len(path) + 1), str |-> path]

dentry_path_raw(names, d, buflen) == RawAt(MountPath(names, d), buflen)

Min(a, b) == IF a < b THEN a ELSE b

\* the bytes the host reads: plen bytes starting at the returned position
SentPath(str, plen) ==
    IF plen > Len(str) THEN str ELSE SubSeq(str, 1, plen)

\* prlfs_get_path returns ERR_PTR(ret), or faults
PathFail(ret, plen) ==
    [ret |-> ret, str |-> << >>, plen |-> plen, underflow |-> FALSE]

\* the end of prlfs_get_path: r2 is the result of prepending "/", str the
\* string that then starts at p; *plen = strnlen(p, PAGE_SIZE-1) + 1
PathEnd(r2, str, plen) ==
    IF r2.ret # OK THEN PathFail(r2.ret, plen)
    ELSE [ret |-> OK,
          str |-> SentPath(str, Min(Len(str), PAGE_SIZE - 1) + 1),
          plen |-> Min(Len(str), PAGE_SIZE - 1) + 1,
          underflow |-> r2.pos < 0]

\* prlfs_get_path, the branch built for kernels from 2.6.38 on, after
\* dentry_path_raw has returned raw and the share name has been prepended
\* with the result r1; when raw is ERR_PTR(-ENAMETOOLONG) the first
\* prepend has copied to ERR_PTR(-ENAMETOOLONG) - namelen
PathNew(raw, r1, plen) ==
    IF raw.err THEN PathFail(OOPS, plen)
    ELSE IF r1.ret # OK THEN PathFail(r1.ret, plen)
    ELSE PathEnd(prepend(r1.pos, r1.buflen, <<"/">>),
                 <<"/">> \o SfName \o raw.str, plen)

\* the build on 2.6.38 and later: buflen is still the whole buffer size
\* after dentry_path_raw has written, so prepend checks the whole size
\* and not the room left in front of the path
GetPathNew(names, d, plen) ==
    PathNew(dentry_path_raw(names, d, plen),
            prepend(dentry_path_raw(names, d, plen).pos, plen, SfName),
            plen)

RECURSIVE WalkOld(_, _, _)
\* the loop of the branch for kernels before 2.6.38: len is the room left
\* in front of what has been written; a name that does not fit stops it
WalkOld(names, d, len) ==
    IF d = Root THEN [err |-> FALSE, len |-> len]
    ELSE IF len < Len(names[d]) + 1 THEN [err |-> TRUE, len |-> len]
    ELSE WalkOld(names, d_parent[d], len - (Len(names[d]) + 1))

\* that branch after the loop has returned w and the share name has been
\* prepended with the result r1: after a name that did not fit the code
\* still falls through to prepend with p = ERR_PTR(-ENAMETOOLONG)
PathOld(w, r1, body, plen) ==
    IF r1.ret # OK THEN PathFail(r1.ret, plen)
    ELSE IF w.err THEN PathFail(OOPS, plen)
    ELSE PathEnd(prepend(r1.pos, r1.buflen, <<"/">>),
                 <<"/">> \o SfName \o body, plen)

\* the first prepend of that branch: room is what is left in front of the
\* path
PrefixOld(w, room, body, plen) ==
    PathOld(w, prepend(room, room, SfName), body, plen)

GetPathOld(names, d, plen) ==
    IF plen < 2 THEN PathFail("ENAMETOOLONG", plen)
    ELSE PrefixOld(WalkOld(names, d, plen - 1),
                   \* the root dentry takes one more byte, for its "/"
                   IF d = Root THEN WalkOld(names, d, plen - 1).len - 1
                   ELSE WalkOld(names, d, plen - 1).len,
                   MountPath(names, d), plen)

prlfs_get_path(names, d, plen) ==
    IF TRUE THEN GetPathNew(names, d, plen)
    ELSE GetPathOld(names, d, plen)

\* PRLFS_STD_INODE_HEAD: allocate the path buffer, resolve the path
PRLFS_STD_INODE_HEAD(names, d, mem) ==
    IF ~mem THEN PathFail("ENOMEM", PATH_MAX)
    ELSE prlfs_get_path(names, d, PATH_MAX)

\* the attribute buffer before the host has written to it
NoAttr ==
    [valid |-> {}, fmt |-> S_IFREG, perm |-> 0, size |-> 0, atime |-> 0,
     mtime |-> 0, ctime |-> 0, uid |-> 0, gid |-> 0, ino |-> 0]

\* no host reply has been read
NoReply == [ret |-> "none", attr |-> NoAttr]

\* the reply of the host to a request that carries no data back
HostReply(hret) == [ret |-> hret, attr |-> NoAttr]

\* a request to the host: the verb, the path and the argument
Req(kind, path, arg) == [kind |-> kind, path |-> path, arg |-> arg]

\* a variant of HostCall that makes a failed request a second time
HostCallRetry(h, kind, arg, hret) ==
    IF h.ret # OK THEN [ret |-> h.ret, reqs |-> << >>, reply |-> NoReply]
    ELSE [ret |-> hret,
          reqs |-> IF hret = OK THEN <<Req(kind, h.str, arg)>>
                   ELSE <<Req(kind, h.str, arg), Req(kind, h.str, arg)>>,
          reply |-> HostReply(hret)]

\* PRLFS_STD_INODE_HEAD with the result h, then one host request that the
\* host answers with hret, then PRLFS_STD_INODE_TAIL
HostCall(h, kind, arg, hret) ==
    IF h.ret # OK THEN [ret |-> h.ret, reqs |-> << >>, reply |-> NoReply]
    ELSE [ret |-> hret, reqs |-> <<Req(kind, h.str, arg)>>,
          reply |-> HostReply(hret)]

(***************************************************************************)
(* Attributes: struct prlfs_attr, the inode, and the conversions.          *)
(***************************************************************************)
PattrBits == {"_PATTR_SIZE", "_PATTR_ATIME", "_PATTR_MTIME", "_PATTR_CTIME",
              "_PATTR_MODE", "_PATTR_UID", "_PATTR_GID", "_PATTR2_INO"}

\* the attribute replies of the host: attr->mode carries the kind and the
\* permission bits, and every field is valid
HostAttrs ==
    [valid : {PattrBits}, fmt : {S_IFREG, S_IFDIR}, perm : HostPerms,
     size : 0..MaxSize,
     atime : HostTimes, mtime : HostTimes, ctime : HostTimes,
     uid : {7}, gid : {7}, ino : {9}]

\* prlfs_get_inode: a new inode of the given mode, with the number
\* get_next_ino returns and the operation table of its kind
prlfs_get_inode(sb, fmt, perm) ==
    [i_fmt |-> fmt, i_perm |-> perm, i_size |-> 0, i_blocks |-> 0,
     i_atime |-> CurrentTime, i_mtime |-> CurrentTime, i_ctime |-> CurrentTime,
     i_uid |-> IF sb.share THEN Cred.uid ELSE sb.uid,
     i_gid |-> IF sb.share THEN Cred.gid ELSE sb.gid,
     i_ino |-> 0,
     i_op |-> CASE fmt = S_IFDIR -> "prlfs_dir_iops"
                [] fmt = S_IFREG -> "prlfs_file_iops"
                [] fmt = S_IFLNK -> "prlfs_symlink_iops"]

\* a variant of prlfs_change_attributes that installs nothing
KeepAttributes(sb, inode, attr) == inode

\* a variant of prlfs_change_attributes that stores the owner and the
\* group of the reply as they come and takes the kind with the mode
ChangeAttributesLiteral(sb, inode, attr) ==
    [inode EXCEPT
       !.i_fmt = IF "_PATTR_MODE" \in attr.valid THEN attr.fmt ELSE @,
       !.i_perm = IF "_PATTR_MODE" \in attr.valid THEN attr.perm ELSE @,
       !.i_uid = IF "_PATTR_UID" \in attr.valid THEN attr.uid ELSE @,
       !.i_gid = IF "_PATTR_GID" \in attr.valid THEN attr.gid ELSE @]

\* prlfs_change_attributes: install the fields of a host reply whose
\* validity bit is set
prlfs_change_attributes(sb, inode, attr) ==
    LET size_v == "_PATTR_SIZE" \in attr.valid
        uid_v  == "_PATTR_UID" \in attr.valid
        gid_v  == "_PATTR_GID" \in attr.valid
    IN  [inode EXCEPT
          !.i_size   = IF size_v THEN attr.size ELSE @,
          !.i_blocks = IF size_v
                       THEN ((attr.size + PAGE_SIZE - 1) \div PAGE_SIZE) * 8
                       ELSE @,
          !.i_atime  = IF "_PATTR_ATIME" \in attr.valid THEN attr.atime ELSE @,
          !.i_mtime  = IF "_PATTR_MTIME" \in attr.valid THEN attr.mtime ELSE @,
          !.i_ctime  = IF "_PATTR_CTIME" \in attr.valid THEN attr.ctime ELSE @,
          !.i_perm   = IF "_PATTR_MODE" \in attr.valid THEN attr.perm ELSE @,
          !.i_uid    = IF uid_v /\ attr.uid = -1 THEN PRLFS_UID_NOBODY
                       ELSE IF uid_v /\ sb.plain THEN attr.uid ELSE @,
          !.i_gid    = IF gid_v /\ attr.gid = -1 THEN PRLFS_GID_NOGROUP
                       ELSE IF gid_v /\ sb.plain THEN attr.gid ELSE @,
          !.i_ino    = IF sb.host_inodes /\ "_PATTR2_INO" \in attr.valid
                       THEN attr.ino ELSE @]

is_bad_inode(inode) == inode.i_op = "bad_inode_ops"

MkIattr(valid, size) ==
    [ia_valid |-> valid, ia_size |-> size,
     ia_atime |-> CHOOSE t \in HostTimes : TRUE,
     ia_mtime |-> CHOOSE t \in HostTimes : TRUE,
     ia_ctime |-> CHOOSE t \in HostTimes : TRUE,
     ia_mode  |-> CHOOSE m \in HostPerms : TRUE,
     ia_uid   |-> Cred.uid, ia_gid |-> Cred.gid]

\* the iattr carries the field
Has(attr, b) == b \in attr.ia_valid

\* the bits attr_to_pattr adds to the mask
AddedMask(attr) ==
    (IF Has(attr, "ATTR_SIZE") THEN {"_PATTR_SIZE"} ELSE {})
    \cup (IF Has(attr, "ATTR_ATIME") /\ Has(attr, "ATTR_MTIME")
          THEN {"_PATTR_ATIME", "_PATTR_MTIME"} ELSE {})
    \cup (IF Has(attr, "ATTR_CTIME") THEN {"_PATTR_CTIME"} ELSE {})
    \cup (IF Has(attr, "ATTR_MODE") THEN {"_PATTR_MODE"} ELSE {})

\* the owner and the group branches assign the mask where the others add
\* to it
AssignedMask(attr, added) ==
    IF Has(attr, "ATTR_GID") THEN {"_PATTR_GID"}
    ELSE IF Has(attr, "ATTR_UID") THEN {"_PATTR_UID"}
    ELSE added

\* attr_to_pattr: the wire request of set-attributes
attr_to_pattr(attr) ==
    [valid |-> AssignedMask(attr, AddedMask(attr)),
     size  |-> IF Has(attr, "ATTR_SIZE") THEN attr.ia_size ELSE 0,
     atime |-> IF Has(attr, "ATTR_ATIME") /\ Has(attr, "ATTR_MTIME")
               THEN attr.ia_atime ELSE 0,
     mtime |-> IF Has(attr, "ATTR_ATIME") /\ Has(attr, "ATTR_MTIME")
               THEN attr.ia_mtime ELSE 0,
     ctime |-> IF Has(attr, "ATTR_CTIME") THEN attr.ia_ctime ELSE 0,
     perm  |-> IF Has(attr, "ATTR_MODE") THEN attr.ia_mode ELSE 0,
     uid   |-> IF Has(attr, "ATTR_UID") THEN attr.ia_uid ELSE 0,
     gid   |-> IF Has(attr, "ATTR_GID") THEN attr.ia_gid ELSE 0]

\* prlfs_inode_setattr: apply the iattr to the in-core inode (the size
\* through truncate_setsize, the rest through setattr_copy)
prlfs_inode_setattr(inode, attr, newsize_ok) ==
    IF Has(attr, "ATTR_SIZE") /\ attr.ia_size # inode.i_size /\ ~newsize_ok
    THEN [ret |-> "EFBIG", inode |-> inode]
    ELSE [ret |-> OK,
          inode |-> [inode EXCEPT
            !.i_size  = IF Has(attr, "ATTR_SIZE") THEN attr.ia_size ELSE @,
            !.i_uid   = IF Has(attr, "ATTR_UID") THEN attr.ia_uid ELSE @,
            !.i_gid   = IF Has(attr, "ATTR_GID") THEN attr.ia_gid ELSE @,
            !.i_atime = IF Has(attr, "ATTR_ATIME") THEN attr.ia_atime ELSE @,
            !.i_mtime = IF Has(attr, "ATTR_MTIME") THEN attr.ia_mtime ELSE @,
            !.i_ctime = IF Has(attr, "ATTR_CTIME") THEN attr.ia_ctime ELSE @,
            !.i_perm  = IF Has(attr, "ATTR_MODE") THEN attr.ia_mode ELSE @]]

\* generic_fillattr and the share-mode override of __prlfs_getattr
FillStat(sb, inode) ==
    [valid |-> TRUE, fmt |-> inode.i_fmt, perm |-> inode.i_perm,
     size |-> inode.i_size, blocks |-> inode.i_blocks,
     atime |-> inode.i_atime, mtime |-> inode.i_mtime,
     ctime |-> inode.i_ctime, ino |-> inode.i_ino,
     uid |-> IF sb.share /\ inode.i_uid # PRLFS_UID_NOBODY THEN Cred.fsuid
             ELSE inode.i_uid,
     gid |-> IF sb.share /\ inode.i_gid # PRLFS_GID_NOGROUP THEN Cred.fsgid
             ELSE inode.i_gid]

NoStat == [valid |-> FALSE]

(***************************************************************************)
(* The mount session and the state after mount.                            *)
(***************************************************************************)
\* the ticks of one second; the model counts the TTL in seconds
HZ == MaxTtl

\* prlfs_parse_mount_options for a mount command without the options
\* uid, gid, share, plain and host_inodes: sbi->ttl = HZ, replaced by the
\* value of a ttl option; ttl_opt keeps the option for reference
prlfs_parse_mount_options(ttl_opt) ==
    [uid |-> Cred.uid, gid |-> Cred.gid,
     ttl |-> IF ttl_opt.given THEN ttl_opt.val ELSE HZ,
     share |-> FALSE, plain |-> FALSE, host_inodes |-> FALSE,
     ttl_opt |-> ttl_opt]

\* the dentries as they are allocated: no time, no flags, no inode
NewDentries ==
    [d_time |-> [d \in Sources |-> 0], d_fsdata |-> [d \in Sources |-> 0],
     d_inode |-> [d \in Sources |-> NULL],
     d_name |-> [d \in Sources |-> <<"a">>]]

\* the call has no second dentry
NoTarget == [d_name |-> << >>, d_time |-> 0, d_fsdata |-> 0]

\* the call has no page
NoPage == [uptodate |-> FALSE, error |-> FALSE, data |-> << >>]

NoCall ==
    [op |-> "none", de |-> Root, de2 |-> Root, ret |-> OK, reval |-> "none",
     reqs |-> << >>, reply |-> NoReply, stat |-> NoStat, pre |-> NewDentries,
     new_pre |-> NoTarget, new_de |-> NoTarget,
     page_pre |-> NoPage, page |-> NoPage]

(***************************************************************************)
(* The tasks of the freeze helper, prl_freeze.c, and its state after       *)
(* init_module.                                                            *)
(***************************************************************************)
\* the tasks that write commands to /proc/driver/prl_freeze, the task that
\* reads it, the worker that runs thaw_work, and the task that unloads
\* the module
Writers == {"w1", "w2"}
Reader == "cat"
Worker == "kworker"
Unloader == "rmmod"
\* the superblocks the paths of the commands lead to
Sbs == {"sda", "sdb"}

\* a task outside the module: pc is its place in the code, cmd the first
\* character of its command, sb the superblock of the path, ret the
\* result; found is the list as its thaw_all found it, thawed the
\* superblocks that thaw_all has thawed, one entry for each call of
\* prl_thaw_bdev; need counts the runs of the work item its
\* flush_scheduled_work still waits for; crossed is set when another
\* task has frozen a superblock or armed the timer during its command;
\* arg is the text after the 't' of a 't' command
IdleTask ==
    [pc |-> "idle", cmd |-> "none", sb |-> "none", ret |-> "none",
     found |-> << >>, thawed |-> << >>, need |-> 0, crossed |-> FALSE,
     arg |-> << >>]

InitFreezer ==
    /\ frozen_sb = << >>
    /\ frozen_mutex = "free"
    /\ thaw_timer = FALSE
    /\ expires = 0
    /\ thaw_work = FALSE
    /\ s_bdev = [sb \in Sbs |-> FALSE]
    /\ task = [c \in (Writers \cup {Reader, Worker, Unloader}) |-> IdleTask]
    /\ loaded = TRUE

\* the state after the mount: the mount command has no ttl option, or
\* one with a value below the default
Init ==
    /\ jiffies \in 0..(JiffiesMod - 1)
    /\ sbi \in {prlfs_parse_mount_options(o) :
                  o \in {[given |-> FALSE, val |-> 0]}
                        \cup [given : {TRUE}, val : 0..(MaxTtl - 1)]}
    /\ d_time = NewDentries.d_time
    /\ d_fsdata = NewDentries.d_fsdata
    /\ d_inode = NewDentries.d_inode
    /\ d_name = NewDentries.d_name
    /\ d_hashed = [d \in Sources |-> FALSE]
    /\ last = NoCall
    /\ inflight = Root
    /\ host_link = {}
    /\ InitFreezer


(***************************************************************************)
(* The calls.  A call runs to its end in one step and leaves its record in *)
(* last; the step Return hands the result back, and the next call starts.  *)
(***************************************************************************)
\* no call is in progress: the VFS may enter the next one
Idle == last.op = "none"

\* the record of a call that has run to its end
DoneBoth(op, d, d2, ret, reval, reqs, reply, stat, new_pre, new_de) ==
    last' = [op |-> op, de |-> d, de2 |-> d2, ret |-> ret, reval |-> reval,
             reqs |-> reqs, reply |-> reply, stat |-> stat,
             pre |-> [d_time |-> d_time, d_fsdata |-> d_fsdata,
                      d_inode |-> d_inode, d_name |-> d_name],
             new_pre |-> new_pre, new_de |-> new_de,
             page_pre |-> NoPage, page |-> NoPage]

\* the record of a call on a page of the file of a dentry: the page as the
\* call found it and as it left it, and what the call handed back in out
DonePage(op, d, ret, reqs, reply, out, page_pre, page) ==
    last' = [op |-> op, de |-> d, de2 |-> d, ret |-> ret, reval |-> "none",
             reqs |-> reqs, reply |-> reply, stat |-> out,
             pre |-> [d_time |-> d_time, d_fsdata |-> d_fsdata,
                      d_inode |-> d_inode, d_name |-> d_name],
             new_pre |-> NoTarget, new_de |-> NoTarget,
             page_pre |-> page_pre, page |-> page]

\* the record of a call on one dentry
Done(op, d, d2, ret, reval, reqs, reply, stat) ==
    DoneBoth(op, d, d2, ret, reval, reqs, reply, stat, NoTarget, NoTarget)

LinkAt(links, path) ==
    IF \E l \in links : l.path = path
    THEN (CHOOSE l \in links : l.path = path).text
    ELSE << >>

HostDrop(links, path) == {l \in links : l.path # path}

HostStore(links, path, text) ==
    HostDrop(links, path) \cup {[path |-> path, text |-> text]}

\* what a request that the host has answered with success does to the
\* links
HostDoes(links, req) ==
    CASE req.kind = "symlink" -> HostStore(links, req.path, req.arg)
      [] req.kind = "remove" -> HostDrop(links, req.path)
      [] req.kind = "rename" ->
           IF \E l \in links : l.path = req.path
           THEN HostStore(HostDrop(links, req.path), req.arg,
                          LinkAt(links, req.path))
           ELSE HostDrop(links, req.arg)
      [] OTHER -> links

\* the links after the host has served the requests of a call
HostApply(links, call) ==
    IF call.reqs # << >> /\ call.reply.ret = OK
    THEN HostDoes(links, call.reqs[1])
    ELSE links

\* the outcomes of the two kmalloc calls of a handler; they are drawn only
\* when the handler gets to them
MemOutcomes == {"ok", "fail1", "fail2"}
MemFor(reached) == IF reached THEN MemOutcomes ELSE {"ok"}

\* the replies of the host to a get-attributes request
AttrReplies ==
    [ret : {OK}, attr : HostAttrs] \cup [ret : HostErrs, attr : {NoAttr}]
RepliesFor(reached) == IF reached THEN AttrReplies ELSE {NoReply}

\* the results of the other host requests
HostRets == {OK} \cup HostErrs
RetsFor(reached) == IF reached THEN HostRets ELSE {"none"}

\* prlfs_dfl: the flag word of the dentry
prlfs_dfl(de) == d_fsdata[de]

\* a variant of check_dentry that never reports the flag
check_dentry_never(de) == FALSE

\* check_dentry: the dentry has been unlinked
check_dentry(de) == prlfs_dfl(de) % 2 = PRL_DFL_UNLINKED

\* a variant of MarkUnlinked that flips the bit
ToggleUnlinked(w) == (w + 1) % 2

\* a variant of MarkUnlinked that stores nothing
KeepFlags(w) == w

\* *dfl |= PRL_DFL_UNLINKED
MarkUnlinked(w) == IF w % 2 = 1 THEN w ELSE w + PRL_DFL_UNLINKED

\* the timer interrupt
Tick ==
    /\ Idle
    /\ jiffies' = (jiffies + 1) % JiffiesMod
    /\ UNCHANGED <<sbi, d_time, d_fsdata, d_inode, d_name, d_hashed, last,
                   inflight, host_link>>
    /\ UNCHANGED freezer

\* the result of the call goes back to the VFS
Return ==
    /\ ~Idle
    /\ last' = NoCall
    /\ UNCHANGED <<jiffies, sbi, d_time, d_fsdata, d_inode, d_name, d_hashed,
                   inflight, host_link>>
    /\ UNCHANGED freezer

\* do_prlfs_getattr after PRLFS_STD_INODE_HEAD has returned h: the host
\* is asked for the attributes and answers with reply
GetattrCall(h, reply) ==
    IF h.ret # OK
    THEN [ret |-> h.ret, attr |-> NoAttr, reqs |-> << >>, reply |-> NoReply]
    ELSE [ret |-> reply.ret, attr |-> reply.attr,
          reqs |-> <<Req("attr_get", h.str, << >>)>>, reply |-> reply]

\* do_prlfs_getattr: resolve the path, ask the host for the attributes
do_prlfs_getattr(de, mem, reply) ==
    GetattrCall(PRLFS_STD_INODE_HEAD(d_name, de, mem), reply)

\* the inode prlfs_lookup attaches: none when the host has no such object
\* or no inode can be had
LookupInode(attr, found) ==
    IF found
    THEN prlfs_change_attributes(
             sbi, prlfs_get_inode(sbi, attr.fmt, attr.perm), attr)
    ELSE NULL

\* prlfs_lookup after do_prlfs_getattr has returned g
LookupEnd(de, mem1, g, ino_ok) ==
    IF ~mem1
    THEN /\ Done("lookup", de, de, "ENOMEM", "none", << >>, NoReply, NoStat)
         /\ UNCHANGED <<d_time, d_inode, d_hashed>>
    ELSE IF g.ret \notin {OK, "ENOENT"}
    THEN /\ Done("lookup", de, de, g.ret, "none", g.reqs, g.reply, NoStat)
         /\ UNCHANGED <<d_time, d_inode, d_hashed>>
    ELSE /\ d_time' = [d_time EXCEPT ![de] = jiffies]
         /\ d_inode' = [d_inode EXCEPT
                ![de] = LookupInode(g.attr, g.ret = OK /\ ino_ok)]
         /\ d_hashed' = [d_hashed EXCEPT ![de] = TRUE]
         /\ Done("lookup", de, de, OK, "none", g.reqs, g.reply, NoStat)

\* prlfs_lookup
Lookup(de) ==
    /\ Idle /\ ~d_hashed[de]
    /\ \E mem \in MemOutcomes :
       \E reply \in RepliesFor(mem = "ok") :
       \E ino_ok \in (IF reply.ret = OK THEN BOOLEAN ELSE {TRUE}) :
         LookupEnd(de, mem # "fail1",
                   do_prlfs_getattr(de, mem # "fail2", reply), ino_ok)
    /\ UNCHANGED <<jiffies, sbi, d_fsdata, d_name, inflight>>
    /\ UNCHANGED freezer
    /\ host_link' = HostApply(host_link, last')

\* a variant of prlfs_inode_open that reports success whatever the host
\* answered
OpenIgnoringHost(de, mem, hret) ==
    [HostCall(PRLFS_STD_INODE_HEAD(d_name, de, mem), "open", << >>, hret)
       EXCEPT !.ret = OK]

\* prlfs_inode_open: resolve the path, ask the host to create and open
prlfs_inode_open(de, mem, hret) ==
    HostCall(PRLFS_STD_INODE_HEAD(d_name, de, mem), "open", << >>, hret)

\* a variant of MknodInvalidate that leaves the timestamp
MknodKeepTime(t, de) == t

\* prlfs_mknod: dentry->d_time = 0
MknodInvalidate(t, de) == [t EXCEPT ![de] = 0]

\* prlfs_mknod after the host request with the result o: the local node
\* of an object the host has created
Mknod(op, de, o, fmt, perm, ino_ok, in) ==
    IF o.ret # OK
    THEN /\ Done(op, de, de, o.ret, "none", o.reqs, o.reply, in)
         /\ UNCHANGED <<d_time, d_inode>>
    ELSE /\ d_time' = MknodInvalidate(d_time, de)
         /\ d_inode' = [d_inode EXCEPT
                ![de] = IF ino_ok THEN prlfs_get_inode(sbi, fmt, perm) ELSE @]
         /\ Done(op, de, de, IF ino_ok THEN OK ELSE "ENOSPC", "none", o.reqs,
                 o.reply, in)

\* prlfs_create
Create(de) ==
    /\ Idle /\ d_hashed[de] /\ d_inode[de] = NULL
    /\ \E mem \in BOOLEAN :
       \E hret \in RetsFor(mem) :
       \E ino_ok \in (IF hret = OK THEN BOOLEAN ELSE {TRUE}),
          perm \in HostPerms :
         Mknod("create", de, prlfs_inode_open(de, mem, hret), S_IFREG, perm,
               ino_ok, NoStat)
    /\ UNCHANGED <<jiffies, sbi, d_fsdata, d_name, d_hashed, inflight>>
    /\ UNCHANGED freezer
    /\ host_link' = HostApply(host_link, last')

\* prlfs_mkdir
Mkdir(de) ==
    /\ Idle /\ d_hashed[de] /\ d_inode[de] = NULL
    /\ \E mem \in BOOLEAN :
       \E hret \in RetsFor(mem) :
       \E ino_ok \in (IF hret = OK THEN BOOLEAN ELSE {TRUE}),
          perm \in HostPerms :
         Mknod("mkdir", de, prlfs_inode_open(de, mem, hret), S_IFDIR, perm,
               ino_ok, NoStat)
    /\ UNCHANGED <<jiffies, sbi, d_fsdata, d_name, d_hashed, inflight>>
    /\ UNCHANGED freezer
    /\ host_link' = HostApply(host_link, last')

\* prlfs_symlink
Symlink(de) ==
    /\ Idle /\ d_hashed[de] /\ d_inode[de] = NULL
    /\ \E mem \in BOOLEAN :
       \E hret \in RetsFor(mem) :
       \E ino_ok \in (IF hret = OK THEN BOOLEAN ELSE {TRUE}),
          symname \in {<<"t">>, <<"u">>} :
         Mknod("symlink", de,
               HostCall(PRLFS_STD_INODE_HEAD(d_name, de, mem), "symlink",
                        symname, hret),
               S_IFLNK, 0, ino_ok, [valid |-> FALSE, symname |-> symname])
    /\ UNCHANGED <<jiffies, sbi, d_fsdata, d_name, d_hashed, inflight>>
    /\ UNCHANGED freezer
    /\ host_link' = HostApply(host_link, last')

\* prlfs_unlink and prlfs_rmdir after prlfs_delete has returned r: the
\* flag is set after a success.  The VFS then detaches the inode
\* (d_delete) unless the object is still held open
Removed(op, de, r, held) ==
    /\ d_fsdata' = [d_fsdata EXCEPT
           ![de] = IF r.ret = OK THEN MarkUnlinked(@) ELSE @]
    /\ d_inode' = [d_inode EXCEPT
           ![de] = IF r.ret = OK /\ ~held THEN NULL ELSE @]
    /\ Done(op, de, de, r.ret, "none", r.reqs, r.reply, NoStat)

\* the body prlfs_unlink and prlfs_rmdir share.  The VFS enters it with a
\* positive dentry
Remove(op, de) ==
    /\ Idle /\ d_hashed[de] /\ d_inode[de] # NULL
    /\ \E mem \in BOOLEAN :
       \E hret \in RetsFor(mem) :
       \E held \in (IF hret = OK /\ inflight # de
                    THEN BOOLEAN ELSE {TRUE}) :
         Removed(op, de,
                 HostCall(PRLFS_STD_INODE_HEAD(d_name, de, mem), "remove",
                          << >>, hret),
                 held)
    /\ UNCHANGED <<jiffies, sbi, d_time, d_name, d_hashed, inflight>>
    /\ UNCHANGED freezer
    /\ host_link' = HostApply(host_link, last')

\* a variant of RenameInvalidate that resets the source only
RenameInvalidateOld(t, old_de, new_de) == [t EXCEPT ![old_de] = 0]

\* __prlfs_rename: old_dentry->d_time = 0; new_dentry->d_time = 0
RenameInvalidate(t, old_de, new_de) ==
    [t EXCEPT ![old_de] = 0, ![new_de] = 0]

\* the names of the dentries of a rename: those of the dentries the calls
\* act on, and that of the destination
NamesWith(names, new_de, tgt) ==
    [d \in DOMAIN names \cup {new_de} |->
        IF d = new_de THEN tgt.d_name ELSE names[d]]

\* prlfs_rename and __prlfs_rename; tgt is the dentry of the destination
\* name.  After a success the VFS (d_move) gives the source dentry the name
\* of the target; after the call it releases the target
\* the d_time of the two dentries of a rename
TimesWith(times, old_de, new_de, tgt) ==
    [d \in {old_de, new_de} |->
        IF d = new_de THEN tgt.d_time ELSE times[d]]

\* prlfs_rename and __prlfs_rename after the two paths have been resolved
\* with the results h and nh; after is the d_time of the two dentries
\* once the request has returned.  After a success the VFS (d_move) gives
\* the source dentry the name of the target
Renamed(old_de, new_de, flags, mem2, hret, tgt, h, nh, after) ==
    IF flags \/ h.ret # OK \/ ~mem2 \/ nh.ret # OK
    THEN /\ DoneBoth("rename", old_de, new_de,
                     IF flags THEN "EINVAL"
                     ELSE IF h.ret # OK THEN h.ret
                     ELSE IF ~mem2 THEN "ENOMEM" ELSE nh.ret,
                     "none", << >>, NoReply, NoStat, tgt, tgt)
         /\ UNCHANGED <<d_time, d_name>>
    ELSE /\ d_time' = [d_time EXCEPT ![old_de] = after[old_de]]
         /\ d_name' = [d_name EXCEPT
                ![old_de] = IF hret = OK THEN tgt.d_name ELSE @]
         /\ DoneBoth("rename", old_de, new_de, hret, "none",
                     <<Req("rename", h.str, nh.str)>>, HostReply(hret),
                     NoStat, tgt,
                     [tgt EXCEPT !.d_time = after[new_de]])

\* the two path resolutions of __prlfs_rename
RenamePaths(old_de, new_de, flags, mem1, mem2, hret, tgt, names) ==
    Renamed(old_de, new_de, flags, mem2, hret, tgt,
            PRLFS_STD_INODE_HEAD(names, old_de, mem1),
            prlfs_get_path(names, new_de, PATH_MAX),
            RenameInvalidate(TimesWith(d_time, old_de, new_de, tgt),
                             old_de, new_de))

\* prlfs_rename and __prlfs_rename; tgt is the dentry of the destination
\* name, which the VFS releases after the call
Rename(old_de, new_de) ==
    /\ Idle /\ d_hashed[old_de] /\ d_inode[old_de] # NULL
    /\ \E flags \in BOOLEAN,
          tgt \in [d_name : {<<"b", "b", "b", "b", "b">>, <<"c">>},
                   d_time : {0, JiffiesMod - 1},
                   d_fsdata : {0, PRL_DFL_UNLINKED}] :
       \E mem \in MemFor(~flags) :
       \E hret \in RetsFor(~flags /\ mem = "ok") :
         RenamePaths(old_de, new_de, flags, mem # "fail1", mem # "fail2",
                     hret, tgt, NamesWith(d_name, new_de, tgt))
    /\ UNCHANGED <<jiffies, sbi, d_fsdata, d_inode, d_hashed, inflight>>
    /\ UNCHANGED freezer
    /\ host_link' = HostApply(host_link, last')

\* the handlers of an inode are reached through inode->i_op
HasIop(de) ==
    /\ d_inode[de] # NULL
    /\ d_inode[de].i_op \in
          {"prlfs_file_iops", "prlfs_dir_iops", "prlfs_symlink_iops"}

\* a variant of SetattrInvalidate that leaves the timestamp
SetattrKeepTime(t, de) == t

\* prlfs_setattr: dentry->d_time = 0
SetattrInvalidate(t, de) == [t EXCEPT ![de] = 0]

\* prlfs_setattr after PRLFS_STD_INODE_HEAD has returned h; s is what
\* prlfs_inode_setattr makes of the inode once the host has accepted
SetattrEnd(de, mem2, attr, hret, h, s) ==
    IF h.ret # OK \/ ~mem2 \/ check_dentry(de)
    THEN /\ Done("setattr", de, de,
                 IF h.ret # OK THEN h.ret
                 ELSE IF ~mem2 THEN "ENOMEM" ELSE "ESTALE",
                 "none", << >>, NoReply, NoStat)
         /\ UNCHANGED <<d_time, d_inode>>
    ELSE /\ d_time' = SetattrInvalidate(d_time, de)
         /\ d_inode' = [d_inode EXCEPT
                ![de] = IF hret = OK THEN s.inode ELSE @]
         /\ Done("setattr", de, de, IF hret = OK THEN s.ret ELSE hret,
                 "none", <<Req("attr_set", h.str, attr_to_pattr(attr))>>,
                 HostReply(hret), [valid |-> FALSE, iattr |-> attr])

\* prlfs_setattr, entered with one of attrs
SetattrWith(de, attrs) ==
    /\ Idle /\ HasIop(de)
    /\ \E mem \in MemOutcomes :
       \E attr \in (IF mem = "ok" /\ ~check_dentry(de)
                    THEN attrs ELSE {MkIattr({}, 0)}) :
       \E hret \in RetsFor(mem = "ok" /\ ~check_dentry(de)) :
       \E newsize_ok \in (IF hret = OK /\ "ATTR_SIZE" \in attr.ia_valid
                          THEN BOOLEAN ELSE {TRUE}) :
         SetattrEnd(de, mem # "fail2", attr, hret,
                    PRLFS_STD_INODE_HEAD(d_name, de, mem # "fail1"),
                    prlfs_inode_setattr(d_inode[de], attr, newsize_ok))
    /\ UNCHANGED <<jiffies, sbi, d_fsdata, d_name, d_hashed, inflight>>
    /\ UNCHANGED freezer
    /\ host_link' = HostApply(host_link, last')

\* a variant of WithinTtl that takes an entry fetched at this tick for
\* fresh whatever the TTL
WithinTtlInclusive(de) ==
    /\ d_time[de] # 0
    /\ (jiffies - d_time[de]) % JiffiesMod <= sbi.ttl

\* the TTL test of prlfs_i_revalidate, in unsigned arithmetic
WithinTtl(de) ==
    /\ d_time[de] # 0
    /\ (jiffies - d_time[de]) % JiffiesMod < sbi.ttl

\* a variant of RevalOut that stamps the dentry
RevalOutStamp(de, ret, g) ==
    [ret |-> ret, d_time |-> jiffies, inode |-> d_inode[de],
     reqs |-> g.reqs, reply |-> g.reply]

\* the exits out and out_free of prlfs_i_revalidate: nothing is stored
RevalOut(de, ret, g) ==
    [ret |-> ret, d_time |-> d_time[de], inode |-> d_inode[de],
     reqs |-> g.reqs, reply |-> g.reply]

\* no host request has been made
NoGet == [reqs |-> << >>, reply |-> NoReply]

\* prlfs_i_revalidate: the result, the dentry's new d_time and inode, the
\* host requests it made and the reply it read
\* prlfs_i_revalidate after do_prlfs_getattr has returned g
RevalEnd(de, inode, mem1, g) ==
    IF inode = NULL THEN RevalOut(de, "ENOENT", NoGet)
    ELSE IF WithinTtl(de) THEN RevalOut(de, OK, NoGet)
    ELSE IF ~mem1 THEN RevalOut(de, "ENOMEM", NoGet)
    ELSE IF g.ret # OK THEN RevalOut(de, g.ret, g)
    ELSE IF inode.i_fmt # g.attr.fmt
    THEN [ret |-> "EIO", d_time |-> jiffies,
          inode |-> [inode EXCEPT !.i_fmt = S_IFREG,
                                  !.i_op = "bad_inode_ops"],
          reqs |-> g.reqs,
          reply |-> g.reply]
    ELSE [ret |-> OK, d_time |-> jiffies,
          inode |-> prlfs_change_attributes(sbi, inode, g.attr),
          reqs |-> g.reqs, reply |-> g.reply]

prlfs_i_revalidate(de, mem1, mem2, reply) ==
    RevalEnd(de, d_inode[de], mem1, do_prlfs_getattr(de, mem2, reply))

\* prlfs_i_revalidate gets to its allocations and to the host
RevalFetches(de) == d_inode[de] # NULL /\ ~WithinTtl(de)

\* prlfs_d_revalidate after prlfs_i_revalidate has returned r
Revalidated(de, r) ==
    /\ d_time' = [d_time EXCEPT ![de] = r.d_time]
    /\ d_inode' = [d_inode EXCEPT ![de] = r.inode]
    /\ Done("d_revalidate", de, de, IF r.ret = OK THEN "1" ELSE "0", r.ret,
            r.reqs, r.reply, NoStat)

\* prlfs_d_revalidate: 1 when prlfs_i_revalidate succeeds, 0 otherwise
Revalidate(de) ==
    /\ Idle /\ d_hashed[de]
    /\ \E mem \in MemFor(RevalFetches(de)) :
       \E reply \in RepliesFor(RevalFetches(de) /\ mem = "ok") :
         Revalidated(
             de, prlfs_i_revalidate(de, mem # "fail1", mem # "fail2", reply))
    /\ UNCHANGED <<jiffies, sbi, d_fsdata, d_name, d_hashed, inflight>>
    /\ UNCHANGED freezer
    /\ host_link' = HostApply(host_link, last')

\* __prlfs_getattr; r is what prlfs_i_revalidate returns once the flag
\* has been found clear
\* __prlfs_getattr from its call of prlfs_i_revalidate on, with r that
\* call's outcome.
GetattrFetched(op, de, r) ==
    /\ d_time' = [d_time EXCEPT ![de] = r.d_time]
    /\ d_inode' = [d_inode EXCEPT ![de] = r.inode]
    /\ Done(op, de, de, r.ret, r.ret, r.reqs, r.reply,
            IF r.ret = OK THEN FillStat(sbi, r.inode) ELSE NoStat)

GetattrStale(op, de) ==
    /\ Done(op, de, de, "ESTALE", "none", << >>, NoReply, NoStat)
    /\ UNCHANGED <<d_time, d_inode>>

GetattrEnd(de, r) ==
    IF check_dentry(de)
    THEN GetattrStale("getattr", de)
    ELSE GetattrFetched("getattr", de, r)

\* prlfs_getattr and __prlfs_getattr
Getattr(de) ==
    /\ Idle /\ HasIop(de)
    /\ \E mem \in MemFor(~check_dentry(de) /\ RevalFetches(de)) :
       \E reply \in RepliesFor(~check_dentry(de) /\ RevalFetches(de)
                               /\ mem = "ok") :
         GetattrEnd(
             de, prlfs_i_revalidate(de, mem # "fail1", mem # "fail2", reply))
    /\ UNCHANGED <<jiffies, sbi, d_fsdata, d_name, d_hashed, inflight>>
    /\ UNCHANGED freezer
    /\ host_link' = HostApply(host_link, last')

(***************************************************************************)
(* Statistics, symbolic links and the pages of regular files.              *)
(***************************************************************************)
\* the buffer as statfs_by_dentry hands it to prlfs_statfs: zeroed
NoFs == [bsize |-> 0, blocks |-> 0, bavail |-> 0]

\* host_request_statfs: one request; on success the three values of the
\* reply are stored through the pointers, on failure they are left alone
host_request_statfs(buf, hret, fs) ==
    [ret |-> hret, reqs |-> <<Req("statfs", << >>, << >>)>>,
     reply |-> [ret |-> hret, attr |-> NoAttr, fs |-> fs],
     buf |-> IF hret = OK THEN fs ELSE buf]

\* the kstatfs prlfs_statfs fills: buf->f_bfree = buf->f_bavail
StatfsBuf(h) ==
    [valid |-> TRUE, f_type |-> "PRLFS_MAGIC", f_namelen |-> 255,
     f_files |-> 4096, f_ffree |-> 4096, f_bsize |-> h.buf.bsize,
     f_blocks |-> h.buf.blocks, f_bavail |-> h.buf.bavail,
     f_bfree |-> h.buf.bavail]

\* prlfs_statfs: the result of host_request_statfs is dropped
Statfs ==
    /\ Idle
    /\ \E hret \in HostRets :
       \* what host_request_statfs writes through its three pointers
       \E fs \in (IF hret = OK
                  THEN [bsize : {512}, blocks : {8}, bavail : {0, 8}]
                  ELSE {NoFs}) :
         Done("statfs", Root, Root, OK, "none",
              host_request_statfs(NoFs, hret, fs).reqs,
              host_request_statfs(NoFs, hret, fs).reply,
              StatfsBuf(host_request_statfs(NoFs, hret, fs)))
    /\ UNCHANGED <<jiffies, sbi, d_time, d_fsdata, d_inode, d_name, d_hashed,
                   inflight>>
    /\ UNCHANGED freezer
    /\ host_link' = HostApply(host_link, last')

\* the text the host holds for the path of the dentry, NoLink when it
\* holds no link there
HostLinkOf(de) ==
    LinkAt(host_link, PRLFS_STD_INODE_HEAD(d_name, de, TRUE).str)

\* do_read_symlink once the path has been resolved with the result h.  The
\* second kmalloc is tested with IS_ERR, which a NULL is not: after it has
\* failed the request is made with a NULL target buffer, and when the host
\* answers the call faults or returns that NULL (nullout)
ReadSymlinkEnd(h, mem2, hret, text, nullout) ==
    IF h.ret # OK
    THEN [ret |-> h.ret, reqs |-> << >>, reply |-> NoReply, out |-> NoStat]
    ELSE [ret |-> IF hret = OK /\ ~mem2 THEN nullout ELSE hret,
          reqs |-> <<Req("readlink", h.str, << >>)>>,
          reply |-> HostReply(hret),
          out |-> IF hret = OK /\ mem2 THEN [valid |-> TRUE, link |-> text]
                  ELSE NoStat]

do_read_symlink(de, mem1, mem2, hret, text, nullout) ==
    ReadSymlinkEnd(PRLFS_STD_INODE_HEAD(d_name, de, mem1), mem2, hret, text,
                   nullout)

\* prlfs_get_link and prlfs_follow_link after do_read_symlink has
\* returned r
GotLink(de, r) ==
    Done("readlink", de, de, r.ret, "none", r.reqs, r.reply, r.out)

\* prlfs_get_link, prlfs_follow_link: the host has no text to return for a
\* path that holds no link; nullout is what becomes of a request made
\* with a NULL target buffer
Readlink(de) ==
    /\ Idle
    /\ d_inode[de] # NULL /\ d_inode[de].i_op = "prlfs_symlink_iops"
    /\ \E mem \in MemOutcomes :
       \E hret \in (IF mem = "fail1" THEN {"none"}
                    ELSE IF HostLinkOf(de) = << >> THEN HostErrs
                    ELSE HostRets) :
       \E nullout \in (IF hret = OK /\ mem = "fail2"
                       THEN {OOPS, "NULL"} ELSE {OOPS}) :
         GotLink(de, do_read_symlink(de, mem # "fail1", mem # "fail2",
                                         hret, HostLinkOf(de), nullout))
    /\ UNCHANGED <<jiffies, sbi, d_time, d_fsdata, d_inode, d_name, d_hashed,
                   inflight>>
    /\ UNCHANGED freezer
    /\ host_link' = HostApply(host_link, last')

\* a page of the page cache as a call finds it: up to date with the bytes
\* of the file, or with whatever the memory held
PageIn(uptodate) ==
    [uptodate |-> uptodate, error |-> FALSE,
     data |-> [i \in 1..PAGE_SIZE |-> IF uptodate THEN "file" ELSE "stale"]]

\* the handlers of the pages are reached through an open regular file
IsOpenFile(de) ==
    d_inode[de] # NULL /\ d_inode[de].i_op = "prlfs_file_iops"

\* prlfs_rw: one read or write request for size bytes; the host answers
\* with an error or with the number n of bytes it has transferred
prlfs_rw(size, hret, n) ==
    [ret |-> hret, n |-> IF hret = OK THEN n ELSE 0,
     reqs |-> <<Req("rw", << >>, size)>>, reply |-> HostReply(hret)]

\* the byte counts the host can answer a request for size bytes with
CountsFor(hret, size) == IF hret = OK THEN 0..size ELSE {0}

\* a variant of ReadFill that leaves the tail of the page as it was
ReadFillNoZero(page, n) ==
    [page EXCEPT !.uptodate = TRUE,
                 !.data = [i \in 1..PAGE_SIZE |->
                              IF i <= n THEN "host" ELSE page.data[i]]]

\* prlfs_readpage after a read of n bytes: memset(buf + ret, 0,
\* PAGE_SIZE - ret), SetPageUptodate
ReadFill(page, n) ==
    [page EXCEPT !.uptodate = TRUE,
                 !.data = [i \in 1..PAGE_SIZE |->
                              IF i <= n THEN "host" ELSE "zero"]]

\* prlfs_readpage after prlfs_rw has returned r
ReadpageEnd(de, page, r) ==
    IF page.uptodate
    THEN DonePage("readpage", de, OK, << >>, NoReply, NoStat, page, page)
    ELSE IF r.ret # OK
    THEN DonePage("readpage", de, "EIO", r.reqs, r.reply, NoStat, page, page)
    ELSE DonePage("readpage", de, OK, r.reqs, r.reply,
                  [valid |-> TRUE, read |-> r.n], page, ReadFill(page, r.n))

\* prlfs_readpage
Readpage(de) ==
    /\ Idle /\ IsOpenFile(de)
    /\ \E uptodate \in BOOLEAN :
       \E hret \in RetsFor(~uptodate) :
       \E n \in CountsFor(hret, PAGE_SIZE) :
         ReadpageEnd(de, PageIn(uptodate), prlfs_rw(PAGE_SIZE, hret, n))
    /\ UNCHANGED <<jiffies, sbi, d_time, d_fsdata, d_inode, d_name, d_hashed,
                   inflight>>
    /\ UNCHANGED freezer
    /\ host_link' = HostApply(host_link, last')

\* prlfs_writepage after prlfs_rw has returned r: SetPageError
WritepageEnd(de, page, r) ==
    DonePage("writepage", de, IF r.ret # OK THEN "EIO" ELSE OK, r.reqs,
             r.reply, NoStat, page,
             [page EXCEPT !.error = r.ret # OK])

\* prlfs_writepage, for the first page of the file: it writes the bytes of
\* the page that lie below i_size
Writepage(de) ==
    /\ Idle /\ IsOpenFile(de)
    /\ \E hret \in HostRets :
       \E n \in CountsFor(hret, Min(d_inode[de].i_size, PAGE_SIZE)) :
         WritepageEnd(de, PageIn(TRUE),
                      prlfs_rw(Min(d_inode[de].i_size, PAGE_SIZE), hret, n))
    /\ UNCHANGED <<jiffies, sbi, d_time, d_fsdata, d_inode, d_name, d_hashed,
                   inflight>>
    /\ UNCHANGED freezer
    /\ host_link' = HostApply(host_link, last')

\* the page prlfs_write_end is handed: the copied bytes of the caller lie
\* at from
PageWritten(uptodate, from, copied) ==
    [PageIn(uptodate) EXCEPT
       !.data = [i \in 1..PAGE_SIZE |->
                    IF from < i /\ i <= from + copied THEN "user" ELSE @[i]]]

\* prlfs_write_end: zero_user(page, from + copied, len - copied) on a page
\* that is not up to date
ZeroUser(page, from, len, copied) ==
    IF ~page.uptodate /\ copied < len
    THEN [page EXCEPT
            !.data = [i \in 1..PAGE_SIZE |->
                         IF from + copied < i /\ i <= from + len
                         THEN "zero"
                         ELSE @[i]]]
    ELSE page

\* a variant of WriteSize that stores the end of the write
WriteSizeAlways(inode, pos, copied) ==
    [inode EXCEPT !.i_size = pos + copied]

\* prlfs_write_end: if (pos + copied > inode->i_size)
\*                      i_size_write(inode, pos + copied)
WriteSize(inode, pos, copied) ==
    [inode EXCEPT !.i_size = IF pos + copied > @ THEN pos + copied ELSE @]

\* prlfs_write_end after prlfs_rw has returned r; zeroed is the page after
\* zero_user
WriteEndDone(de, pos, len, copied, page, zeroed, r) ==
    IF r.ret # OK
    THEN /\ DonePage("write_end", de, r.ret, r.reqs, r.reply, NoStat, page,
                     zeroed)
         /\ UNCHANGED d_inode
    ELSE /\ d_inode' = [d_inode EXCEPT ![de] = WriteSize(@, pos, copied)]
         /\ DonePage("write_end", de, OK, r.reqs, r.reply,
                     [valid |-> TRUE, pos |-> pos, written |-> r.n], page,
                     [zeroed EXCEPT
                        !.uptodate = @ \/ len = PAGE_SIZE])

\* prlfs_write_end: pos is the offset of the write, len the length
\* write_begin was asked for and copied the bytes the caller has copied
WriteEnd(de) ==
    /\ Idle /\ IsOpenFile(de)
    /\ \E pos \in 0..MaxSize, uptodate \in BOOLEAN, hret \in HostRets :
       \E copied \in 0..(MaxSize - pos) :
       \E len \in {copied, PAGE_SIZE - pos} :
       \E n \in CountsFor(hret, copied) :
         WriteEndDone(de, pos, len, copied,
                      PageWritten(uptodate, pos % PAGE_SIZE, copied),
                      ZeroUser(PageWritten(uptodate, pos % PAGE_SIZE,
                                           copied),
                               pos % PAGE_SIZE, len, copied),
                      prlfs_rw(copied, hret, n))
    /\ UNCHANGED <<jiffies, sbi, d_time, d_fsdata, d_name, d_hashed, inflight>>
    /\ UNCHANGED freezer
    /\ host_link' = HostApply(host_link, last')

Next ==
    \/ Tick
    \/ Return
    \/ \E de \in Sources : Lookup(de)
    \/ \E de \in Sources : Create(de)
    \/ \E de \in Sources : Mkdir(de)
    \/ \E de \in Sources : Symlink(de)
    \/ \E de \in Sources : Remove("unlink", de)
    \/ \E de \in Sources : Remove("rmdir", de)
    \/ \E o \in Sources, n \in {"y"} : Rename(o, n)
    \* the set-attributes calls of the model: a truncate and a chmod
    \/ \E de \in Sources :
         SetattrWith(de, {MkIattr({"ATTR_SIZE"}, n) : n \in 0..MaxSize}
                         \cup {MkIattr({"ATTR_MODE"}, 0)})
    \/ \E de \in Sources : Revalidate(de)
    \/ \E de \in Sources : Getattr(de)
    \/ Statfs
    \/ \E de \in Sources : Readlink(de)
    \/ \E de \in Sources : Readpage(de)
    \/ \E de \in Sources : Writepage(de)
    \/ \E de \in Sources : WriteEnd(de)

Spec == Init /\ [][Next]_vars

\* ---------------------------------------------------------------------
\* Two calls on one dentry.  vfs_getattr takes no lock of the inode, so a
\* get-attributes can be preempted between its check_dentry (inode.c 598)
\* and its prlfs_i_revalidate (inode.c 603) while another call runs to its
\* end on the same dentry.  (notify_change and vfs_unlink/vfs_rmdir hold
\* the inode's lock, so a set-attributes and a remove never overlap.)
\* The get-attributes holds a reference of the dentry, so a remove that
\* runs meanwhile leaves the inode attached.

\* The first step: prlfs_getattr up to and including a check_dentry that
\* finds the flag clear.
GetattrCheck(de) ==
    /\ Idle /\ inflight = Root /\ HasIop(de)
    /\ ~check_dentry(de)
    /\ inflight' = de
    /\ UNCHANGED <<jiffies, sbi, d_time, d_fsdata, d_inode, d_name, d_hashed,
                   last, host_link>>
    /\ UNCHANGED freezer

\* A variant that looks at the flag again before it goes on.
GetattrLateRechecked(de, r) ==
    IF check_dentry(de)
    THEN GetattrStale("getattr_late", de)
    ELSE GetattrFetched("getattr_late", de, r)

\* The second step: the rest of __prlfs_getattr, which does not look at
\* the flag again.
GetattrLate(de, r) ==
    GetattrFetched("getattr_late", de, r)

GetattrResume(de) ==
    /\ Idle /\ inflight = de /\ de # Root
    /\ \E mem \in MemFor(RevalFetches(de)) :
       \E reply \in RepliesFor(RevalFetches(de) /\ mem = "ok") :
         GetattrLate(
             de, prlfs_i_revalidate(de, mem # "fail1", mem # "fail2", reply))
    /\ inflight' = Root
    /\ UNCHANGED <<jiffies, sbi, d_fsdata, d_name, d_hashed>>
    /\ UNCHANGED freezer
    /\ host_link' = HostApply(host_link, last')

SpecRace ==
    /\ Init
    /\ [][\/ Next
          \/ \E de \in Sources : GetattrCheck(de)
          \/ \E de \in Sources : GetattrResume(de)]_vars

\* ---------------------------------------------------------------------
\* prlfs_change_attributes on its own: one call on an inode of any kind
\* and size, over every validity mask a reply can carry and every
\* combination of the mount options it reads.

\* the state before the call: prlfs_fill_super keeps the host_inodes
\* option only when the host has the feature PRLFS_SFF_HOST_INODES
InitAttr ==
    /\ jiffies = 0
    /\ sbi \in {[uid |-> Cred.uid, gid |-> Cred.gid, ttl |-> 0,
                  share |-> FALSE, plain |-> pl, host_inodes |-> opt /\ feat,
                  ttl_opt |-> [given |-> TRUE, val |-> 0]] :
                    pl \in BOOLEAN, opt \in BOOLEAN, feat \in BOOLEAN}
    /\ d_time = NewDentries.d_time
    /\ d_fsdata = NewDentries.d_fsdata
    /\ \E fmt \in {S_IFREG, S_IFDIR, S_IFLNK}, size \in 0..MaxSize :
         d_inode = [d \in Sources |->
                      [prlfs_get_inode(sbi, fmt, 0) EXCEPT !.i_size = size]]
    /\ d_name = NewDentries.d_name
    /\ d_hashed = [d \in Sources |-> TRUE]
    /\ last = NoCall
    /\ inflight = Root
    /\ host_link = {}
    /\ InitFreezer

\* one call of prlfs_change_attributes on the inode of de; the replies
\* have any validity mask, a kind that may differ from the inode's, an
\* owner and a group that may be -1
ChangeAttributes(de) ==
    /\ Idle /\ d_inode[de] # NULL
    /\ \E attr \in [valid : SUBSET PattrBits, fmt : {S_IFREG, S_IFDIR},
                     perm : HostPerms, size : 0..MaxSize,
                     atime : HostTimes, mtime : HostTimes,
                     ctime : HostTimes, uid : {7, -1}, gid : {7, -1},
                     ino : {9}] :
         /\ d_inode' = [d_inode EXCEPT
                          ![de] = prlfs_change_attributes(sbi, @, attr)]
         /\ Done("change_attributes", de, de, OK, "none", << >>,
                 [ret |-> OK, attr |-> attr], NoStat)
    /\ UNCHANGED <<jiffies, sbi, d_time, d_fsdata, d_name, d_hashed, inflight>>
    /\ UNCHANGED freezer
    /\ host_link' = HostApply(host_link, last')

SpecAttr == InitAttr /\ [][\E de \in Sources : ChangeAttributes(de)]_vars

\* prlfs_setattr with any set of the ATTR_ bits in ia_valid
SetattrAny(de) ==
    SetattrWith(de,
                {MkIattr(v, n) :
                   v \in SUBSET {"ATTR_SIZE", "ATTR_ATIME", "ATTR_MTIME",
                                 "ATTR_CTIME", "ATTR_MODE", "ATTR_UID",
                                 "ATTR_GID"},
                   n \in 0..MaxSize})

SpecIattr == InitAttr /\ [][\E de \in Sources : SetattrAny(de)]_vars

\* the decimal digits and their values
DigitOf(ch) ==
    CASE ch = "0" -> 0 [] ch = "1" -> 1 [] ch = "2" -> 2 [] ch = "3" -> 3
      [] ch = "4" -> 4 [] ch = "5" -> 5 [] ch = "6" -> 6 [] ch = "7" -> 7
      [] ch = "8" -> 8 [] ch = "9" -> 9 [] OTHER -> -1

(***************************************************************************)
(* The numeric mount options.                                              *)
(***************************************************************************)
\* prlfs_strtoui, about to read the character i of cp with ui the value of
\* the characters before it; entered with i = 1 and ui = 0.  The
\* arithmetic is that of unsigned; *result is written on success only.
RECURSIVE prlfs_strtoui(_, _, _)
prlfs_strtoui(cp, i, ui) ==
    IF cp = << >> THEN [ret |-> "EINVAL", written |-> FALSE, result |-> 0]
    ELSE IF i > Len(cp) THEN [ret |-> OK, written |-> TRUE, result |-> ui]
    ELSE IF DigitOf(cp[i]) < 0
    THEN [ret |-> "EINVAL", written |-> FALSE, result |-> 0]
    ELSE IF ui > (ui * 10 + DigitOf(cp[i])) % (2 ^ UintBits)
    THEN [ret |-> "EINVAL", written |-> FALSE, result |-> 0]
    ELSE prlfs_strtoui(cp, i + 1, (ui * 10 + DigitOf(cp[i])) % (2 ^ UintBits))

\* prlfs_parse_mount_options for the option text "<opt>=<val>", opt one of
\* ttl, uid and gid, after it has set the defaults in sb: a value of no
\* character is no value, and the option is refused without a call of
\* prlfs_strtoui; uid_arg and gid_arg are -1 until prlfs_strtoui writes
\* them, and stored whatever it returns
ParseNumeric(sb, opt, val, r) ==
    [ret |-> IF val = << >> THEN "EINVAL" ELSE r.ret,
     sbi |-> IF val = << >> THEN sb
             ELSE IF opt = "ttl"
             THEN [sb EXCEPT !.ttl = IF r.written THEN r.result ELSE @]
             ELSE IF opt = "uid"
             THEN [sb EXCEPT !.uid = IF r.written THEN r.result
                                     ELSE 2 ^ UintBits - 1]
             ELSE [sb EXCEPT !.gid = IF r.written THEN r.result
                                     ELSE 2 ^ UintBits - 1]]

\* the mount command carries one numeric option, whose value is any text
\* of up to MaxDigits digits and letters x
Mount ==
    /\ Idle
    /\ sbi' = ParseNumeric(sbi, sbi.ttl_opt.opt, sbi.ttl_opt.val,
                           prlfs_strtoui(sbi.ttl_opt.val, 1, 0)).sbi
    /\ Done("mount", Root, Root,
            ParseNumeric(sbi, sbi.ttl_opt.opt, sbi.ttl_opt.val,
                         prlfs_strtoui(sbi.ttl_opt.val, 1, 0)).ret,
            "none", << >>, NoReply, NoStat)
    /\ UNCHANGED <<jiffies, d_time, d_fsdata, d_inode, d_name, d_hashed,
                   inflight, host_link>>
    /\ UNCHANGED freezer

\* before the option is parsed sbi holds the defaults; ttl_opt keeps the
\* option as the mount command gave it
InitMount ==
    /\ jiffies = 0
    /\ \E opt \in {"ttl", "uid", "gid"} :
       \E val \in UNION {[1..n -> {"0", "1", "2", "3", "4", "5", "6", "7",
                                   "8", "9", "x"}] : n \in 0..MaxDigits} :
         sbi = [prlfs_parse_mount_options([given |-> FALSE, val |-> 0])
                  EXCEPT !.ttl_opt = [given |-> TRUE, opt |-> opt,
                                      val |-> val]]
    /\ d_time = NewDentries.d_time
    /\ d_fsdata = NewDentries.d_fsdata
    /\ d_inode = NewDentries.d_inode
    /\ d_name = NewDentries.d_name
    /\ d_hashed = [d \in Sources |-> FALSE]
    /\ last = NoCall
    /\ inflight = Root
    /\ host_link = {}
    /\ InitFreezer

SpecMount == InitMount /\ [][Mount]_vars

(***************************************************************************)
(* The freeze helper: the commands written to /proc/driver/prl_freeze,     *)
(* the listing read from it, the timer, the work item and the unload.      *)
(* A task takes one step at a time, so the steps of different tasks        *)
(* interleave.                                                             *)
(***************************************************************************)
InList(list, sb) == \E i \in 1..Len(list) : list[i] = sb

\* a variant of freeze_sb that does not look for the superblock in the
\* list
FreezeSbNoLookup(list, sb, mem, fret) ==
    IF ~mem THEN [ret |-> "ENOMEM", list |-> list, froze |-> FALSE]
    ELSE IF fret # OK THEN [ret |-> fret, list |-> list, froze |-> FALSE]
    ELSE [ret |-> OK, list |-> Append(list, sb), froze |-> TRUE]

\* freeze_sb: -EEXIST for a superblock of the list, -ENOMEM, the error of
\* prl_freeze_bdev, or the superblock is frozen and goes to the tail
freeze_sb(list, sb, mem, fret) ==
    IF InList(list, sb) THEN [ret |-> "EEXIST", list |-> list, froze |-> FALSE]
    ELSE IF ~mem THEN [ret |-> "ENOMEM", list |-> list, froze |-> FALSE]
    ELSE IF fret # OK THEN [ret |-> fret, list |-> list, froze |-> FALSE]
    ELSE [ret |-> OK, list |-> Append(list, sb), froze |-> TRUE]

\* thaw_sb: the superblock of the list is thawed and taken off the list
thaw_sb(list, sb) ==
    IF InList(list, sb)
    THEN [ret |-> OK, list |-> SelectSeq(list, LAMBDA e : e # sb),
          thawed |-> TRUE]
    ELSE [ret |-> "ENOENT", list |-> list, thawed |-> FALSE]

\* another task has frozen a superblock or armed the timer (hit) while a
\* '#' command was under way
Cross(t, self, hit) ==
    [c \in DOMAIN t |->
        IF hit /\ c # self /\ t[c].cmd = "#"
        THEN [t[c] EXCEPT !.crossed = TRUE] ELSE t[c]]

\* a variant of mutex_lock that does not wait
MutexLockNoWait(c) == TRUE

\* mutex_lock(&frozen_mutex) returns once the mutex is free
mutex_lock(c) == frozen_mutex = "free"

\* freeze_write: a command with a path, '/', '+' or '-'; lookup_target
\* finds the inode of the path or fails
StartPath(c) ==
    /\ loaded /\ task[c].pc = "idle"
    /\ \E cmd \in {"+", "-"}, sb \in Sbs, found \in BOOLEAN :
         task' = [task EXCEPT
                    ![c] = [IdleTask EXCEPT
                              !.pc = IF found THEN "pp_lock" ELSE "done",
                              !.cmd = cmd,
                              !.sb = IF found THEN sb ELSE "none",
                              !.ret = IF found THEN "none" ELSE "ENOENT"]]
    /\ UNCHANGED <<frozen_sb, frozen_mutex, thaw_timer, thaw_work, s_bdev,
                   loaded>>
    /\ UNCHANGED expires
    /\ UNCHANGED prlfs

\* process_path after freeze_sb or thaw_sb has returned r
PpDone(c, r, froze, thawed) ==
    /\ frozen_sb' = r.list
    /\ s_bdev' = [s_bdev EXCEPT
                    ![task[c].sb] = IF froze THEN TRUE
                                    ELSE IF thawed THEN FALSE ELSE @]
    /\ task' = Cross([task EXCEPT ![c].pc = "pp_unlock", ![c].ret = r.ret],
                     c, froze)

\* process_path: mutex_lock(&frozen_mutex), then freeze_sb(inode->i_sb)
\* or thaw_sb(inode->i_sb)
ProcessPath(c) ==
    /\ task[c].pc = "pp_lock" /\ mutex_lock(c)
    /\ frozen_mutex' = c
    /\ IF task[c].cmd = "+"
       THEN \E mem \in BOOLEAN, fret \in {OK, "EBUSY"} :
              PpDone(c, freeze_sb(frozen_sb, task[c].sb, mem, fret),
                     freeze_sb(frozen_sb, task[c].sb, mem, fret).froze,
                     FALSE)
       ELSE PpDone(c, thaw_sb(frozen_sb, task[c].sb), FALSE,
                   thaw_sb(frozen_sb, task[c].sb).thawed)
    /\ UNCHANGED <<thaw_timer, thaw_work, loaded>>
    /\ UNCHANGED expires
    /\ UNCHANGED prlfs

\* process_path: mutex_unlock(&frozen_mutex) and the return, which ends the
\* life of sb
PpUnlock(c) ==
    /\ task[c].pc = "pp_unlock"
    /\ frozen_mutex' = "free"
    /\ task' = [task EXCEPT ![c].pc = "done", ![c].sb = "none"]
    /\ UNCHANGED <<frozen_sb, thaw_timer, thaw_work, s_bdev, loaded>>
    /\ UNCHANGED expires
    /\ UNCHANGED prlfs

\* freeze_write: the command '#'
StartThawAll(c) ==
    /\ loaded /\ task[c].pc = "idle"
    /\ task' = [task EXCEPT
                  ![c] = [IdleTask EXCEPT !.pc = "ta_lock", !.cmd = "#"]]
    /\ UNCHANGED <<frozen_sb, frozen_mutex, thaw_timer, thaw_work, s_bdev,
                   loaded>>
    /\ UNCHANGED expires
    /\ UNCHANGED prlfs

RECURSIVE ThawEach(_)
\* the loop of thaw_all: prl_thaw_bdev for every entry of the list, in
\* the order of the list
ThawEach(list) ==
    IF list = << >> THEN << >>
    ELSE <<Head(list)>> \o ThawEach(Tail(list))

\* thaw_all: mutex_lock(&frozen_mutex), the loop and
\* INIT_LIST_HEAD(&frozen_sb)
ThawAll(c) ==
    /\ task[c].pc = "ta_lock" /\ mutex_lock(c)
    /\ frozen_mutex' = c
    /\ s_bdev' = [sb \in Sbs |->
                    IF InList(ThawEach(frozen_sb), sb) THEN FALSE
                    ELSE s_bdev[sb]]
    /\ frozen_sb' = << >>
    /\ task' = [task EXCEPT ![c].pc = "ta_unlock",
                            ![c].found = frozen_sb,
                            ![c].thawed = ThawEach(frozen_sb)]
    /\ UNCHANGED <<thaw_timer, thaw_work, loaded>>
    /\ UNCHANGED expires
    /\ UNCHANGED prlfs

\* thaw_all: mutex_unlock(&frozen_mutex).  In the worker this ends the
\* run of the work item, and the tasks whose flush_scheduled_work waits
\* for it have one run less to wait for; in a '#' command and in the
\* unload cancel_timeout follows
TaUnlock(c) ==
    /\ task[c].pc = "ta_unlock"
    /\ frozen_mutex' = "free"
    /\ task' = IF c = Worker
               THEN [d \in DOMAIN task |->
                       IF d = c THEN IdleTask
                       ELSE IF task[d].pc = "flush_wait" /\ task[d].need > 0
                       THEN [task[d] EXCEPT !.need = @ - 1]
                       ELSE task[d]]
               ELSE [task EXCEPT ![c].pc = "del_timer", ![c].ret = OK]
    /\ UNCHANGED <<frozen_sb, thaw_timer, thaw_work, s_bdev, loaded>>
    /\ UNCHANGED expires
    /\ UNCHANGED prlfs

\* a variant of del_timer_sync that leaves the timer pending
DelTimerNot(pending) == pending

\* del_timer_sync(&thaw_timer): the timer is no longer pending
del_timer_sync(pending) == FALSE

\* cancel_timeout: del_timer_sync(&thaw_timer)
DelTimer(c) ==
    /\ task[c].pc = "del_timer"
    /\ thaw_timer' = del_timer_sync(thaw_timer)
    /\ expires' = IF thaw_timer' THEN expires ELSE 0
    /\ task' = [task EXCEPT ![c].pc = "flush"]
    /\ UNCHANGED <<frozen_sb, frozen_mutex, thaw_work, s_bdev, loaded>>
    /\ UNCHANGED prlfs

\* the runs of the work item a flush_scheduled_work that starts now waits
\* for: the run under way and the queued one
RunsAhead ==
    (IF task[Worker].pc # "idle" THEN 1 ELSE 0)
    + (IF thaw_work THEN 1 ELSE 0)

\* cancel_timeout: flush_scheduled_work() starts
Flush(c) ==
    /\ task[c].pc = "flush"
    /\ task' = [task EXCEPT
                  ![c].pc = IF RunsAhead = 0 THEN "done" ELSE "flush_wait",
                  ![c].need = RunsAhead]
    /\ UNCHANGED <<frozen_sb, frozen_mutex, thaw_timer, thaw_work, s_bdev,
                   loaded>>
    /\ UNCHANGED expires
    /\ UNCHANGED prlfs

\* cancel_timeout: flush_scheduled_work() returns
FlushDone(c) ==
    /\ task[c].pc = "flush_wait" /\ task[c].need = 0
    /\ task' = [task EXCEPT ![c].pc = "done"]
    /\ UNCHANGED <<frozen_sb, frozen_mutex, thaw_timer, thaw_work, s_bdev,
                   loaded>>
    /\ UNCHANGED expires
    /\ UNCHANGED prlfs

RECURSIVE simple_strtoul(_, _)
\* simple_strtoul(arg, &p, 10), entered with acc = 0: the value of the
\* leading digits, and in rest what *p points to, the text from the first
\* character that is not a digit
simple_strtoul(arg, acc) ==
    IF arg = << >> \/ DigitOf(Head(arg)) < 0
    THEN [val |-> acc, rest |-> arg]
    ELSE simple_strtoul(Tail(arg), acc * 10 + DigitOf(Head(arg)))

\* freeze_write: the command 't' followed by nothing, by 1 or by x;
\* arm_timeout returns -EINVAL when
\* simple_strtoul has not read the argument to its end
StartArm(c) ==
    /\ loaded /\ task[c].pc = "idle"
    /\ \E arg \in {<< >>, <<"1">>, <<"x">>} :
         task' = [task EXCEPT
                    ![c] = [IdleTask EXCEPT
                              !.pc = IF simple_strtoul(arg, 0).rest = << >>
                                     THEN "arm_lock" ELSE "done",
                              !.cmd = "t",
                              !.arg = arg,
                              !.ret = IF simple_strtoul(arg, 0).rest = << >>
                                      THEN "none" ELSE "EINVAL"]]
    /\ UNCHANGED <<frozen_sb, frozen_mutex, thaw_timer, thaw_work, s_bdev,
                   loaded>>
    /\ UNCHANGED expires
    /\ UNCHANGED prlfs

\* schedule_thaw_work: false when the timer is pending, else
\* mod_timer(&thaw_timer, jiffies + HZ * timeout)
schedule_thaw_work(pending, old, timeout) ==
    IF pending THEN [armed |-> FALSE, expires |-> old]
    ELSE [armed |-> TRUE, expires |-> jiffies + HZ * timeout]

\* arm_timeout: mutex_lock(&frozen_mutex), then schedule_thaw_work arms
\* the timer unless it is pending; arg is not read again
ArmTimeout(c) ==
    /\ task[c].pc = "arm_lock" /\ mutex_lock(c)
    /\ frozen_mutex' = c
    /\ thaw_timer' = TRUE
    /\ expires' = schedule_thaw_work(thaw_timer, expires,
                                     simple_strtoul(task[c].arg, 0).val
                                    ).expires
    /\ task' = Cross([task EXCEPT
                        ![c].pc = "arm_unlock",
                        ![c].arg = << >>,
                        ![c].ret = IF thaw_timer THEN "EBUSY" ELSE OK],
                     c, ~thaw_timer)
    /\ UNCHANGED <<frozen_sb, thaw_work, s_bdev, loaded>>
    /\ UNCHANGED prlfs

\* arm_timeout: mutex_unlock(&frozen_mutex)
ArmUnlock(c) ==
    /\ task[c].pc = "arm_unlock"
    /\ frozen_mutex' = "free"
    /\ task' = [task EXCEPT ![c].pc = "done"]
    /\ UNCHANGED <<frozen_sb, thaw_timer, thaw_work, s_bdev, loaded>>
    /\ UNCHANGED expires
    /\ UNCHANGED prlfs

\* a read of the file: seq_read calls seq_start, which takes the mutex
\* and walks the list to the position of the read
SeqStart ==
    /\ loaded /\ task[Reader].pc = "idle" /\ mutex_lock(Reader)
    /\ frozen_mutex' = Reader
    /\ task' = [task EXCEPT
                  ![Reader] = [IdleTask EXCEPT !.pc = "seq_show",
                                               !.cmd = "cat",
                                               !.found = frozen_sb]]
    /\ UNCHANGED <<frozen_sb, thaw_timer, thaw_work, s_bdev, loaded>>
    /\ UNCHANGED expires
    /\ UNCHANGED prlfs

\* seq_show and seq_next print the entries from there to the end of the
\* list
SeqShow ==
    /\ task[Reader].pc = "seq_show"
    /\ task' = [task EXCEPT ![Reader].pc = "seq_stop",
                            ![Reader].thawed = frozen_sb]
    /\ UNCHANGED <<frozen_sb, frozen_mutex, thaw_timer, thaw_work, s_bdev,
                   loaded>>
    /\ UNCHANGED expires
    /\ UNCHANGED prlfs

\* seq_stop, which seq_read calls after every seq_start: mutex_unlock,
\* and the read returns to the caller
SeqStop ==
    /\ task[Reader].pc = "seq_stop"
    /\ frozen_mutex' = "free"
    /\ task' = [task EXCEPT ![Reader] = IdleTask]
    /\ UNCHANGED <<frozen_sb, thaw_timer, thaw_work, s_bdev, loaded>>
    /\ UNCHANGED expires
    /\ UNCHANGED prlfs

\* the write returns to the caller
Exit(c) ==
    /\ c # Unloader /\ task[c].pc = "done"
    /\ task' = [task EXCEPT ![c] = IdleTask]
    /\ UNCHANGED <<frozen_sb, frozen_mutex, thaw_timer, thaw_work, s_bdev,
                   loaded>>
    /\ UNCHANGED expires
    /\ UNCHANGED prlfs

\* a variant of schedule_work that queues nothing
ScheduleWorkNot(queued) == queued

\* schedule_work(&thaw_work): the work item is queued, once
schedule_work(queued) == TRUE

\* thaw_timer_fn: the timer expires and schedule_work queues the work item
TimerFire ==
    /\ thaw_timer
    /\ thaw_timer' = FALSE
    /\ thaw_work' = schedule_work(thaw_work)
    /\ expires' = 0
    /\ UNCHANGED <<frozen_sb, frozen_mutex, s_bdev, task, loaded>>
    /\ UNCHANGED prlfs

\* the worker takes the work item off the queue and calls thaw_timeout
WorkerStart ==
    /\ thaw_work /\ task[Worker].pc = "idle"
    /\ thaw_work' = FALSE
    /\ task' = [task EXCEPT
                  ![Worker] = [IdleTask EXCEPT !.pc = "ta_lock",
                                               !.cmd = "work"]]
    /\ UNCHANGED <<frozen_sb, frozen_mutex, thaw_timer, s_bdev, loaded>>
    /\ UNCHANGED expires
    /\ UNCHANGED prlfs

\* cleanup_module: the kernel unloads the module only while nobody has
\* the file open; remove_proc_entry, then thaw_all and cancel_timeout
Unload ==
    /\ loaded
    /\ \A c \in Writers \cup {Reader} : task[c].pc = "idle"
    /\ loaded' = FALSE
    /\ task' = [task EXCEPT
                  ![Unloader] = [IdleTask EXCEPT !.pc = "ta_lock",
                                                 !.cmd = "unload"]]
    /\ UNCHANGED <<frozen_sb, frozen_mutex, thaw_timer, thaw_work, s_bdev>>
    /\ UNCHANGED expires
    /\ UNCHANGED prlfs

Cancellers == Writers \cup {Unloader}

NextFreeze ==
    \/ \E c \in Writers : StartPath(c)
    \/ \E c \in Writers : ProcessPath(c)
    \/ \E c \in Writers : PpUnlock(c)
    \/ \E c \in Writers : StartThawAll(c)
    \/ \E c \in (Writers \cup {Worker, Unloader}) : ThawAll(c)
    \/ \E c \in (Writers \cup {Worker, Unloader}) : TaUnlock(c)
    \/ \E c \in Cancellers : DelTimer(c)
    \/ \E c \in Cancellers : Flush(c)
    \/ \E c \in Cancellers : FlushDone(c)
    \/ \E c \in Writers : StartArm(c)
    \/ \E c \in Writers : ArmTimeout(c)
    \/ \E c \in Writers : ArmUnlock(c)
    \/ SeqStart
    \/ SeqShow
    \/ SeqStop
    \/ \E c \in Writers : Exit(c)
    \/ TimerFire
    \/ WorkerStart
    \/ Unload

\* the helper after init_module; the shared folders are another module,
\* here a mount with the default options that nobody uses
InitFreeze ==
    /\ jiffies = 0
    /\ sbi = prlfs_parse_mount_options([given |-> FALSE, val |-> 0])
    /\ d_time = NewDentries.d_time
    /\ d_fsdata = NewDentries.d_fsdata
    /\ d_inode = NewDentries.d_inode
    /\ d_name = NewDentries.d_name
    /\ d_hashed = [d \in Sources |-> FALSE]
    /\ last = NoCall
    /\ inflight = Root
    /\ host_link = {}
    /\ InitFreezer

SpecFreeze == InitFreeze /\ [][NextFreeze]_vars

\* the kernel runs an expired timer and a queued work item, hands the
\* mutex to a task that has waited for it while others took it again, and
\* a task that holds the mutex runs on to its mutex_unlock: nothing
\* between the two waits for another task of the helper
SpecFreezeFair ==
    /\ InitFreeze
    /\ [][NextFreeze]_vars
    /\ WF_vars(TimerFire)
    /\ WF_vars(WorkerStart)
    /\ SF_vars(ThawAll(Worker))
    /\ WF_vars(\/ \E c \in Writers : PpUnlock(c)
               \/ \E c \in Writers \cup {Worker, Unloader} : TaUnlock(c)
               \/ \E c \in Writers : ArmUnlock(c)
               \/ SeqShow
               \/ SeqStop)

(***************************************************************************)
(* The properties.  A call leaves in last what it returned, the host       *)
(* requests it made, the reply it read and the dentries as it found them;  *)
(* the variables hold the dentries as it left them.                        *)
(***************************************************************************)
\* the unlinked bit of a flag word is set
Unlinked(w) == w % 2 = 1

\* the call that has just run is one of ops, entered through de
Ran(ops, de) == last.op \in ops /\ last.de = de

\* a timestamp t is within the TTL window at the tick now
InWindow(t, now) == t # 0 /\ (now - t) % JiffiesMod < sbi.ttl

\* the composed path of de does not fit the path buffer
TooLong(names, de) ==
    Len(<<"/">> \o SfName \o DentryPath(names, de)) + 1 > PATH_MAX

Removes == {"unlink", "rmdir"}

\* the names of the dentries the call that has just run was entered with
CallNames ==
    IF last.op = "rename"
    THEN NamesWith(last.pre.d_name, last.de2, last.new_pre)
    ELSE last.pre.d_name

C2_LocalFailureNoRequest ==
    \A de \in (Sources \cup {"y"}) :
      (/\ last.op \in {"create", "mkdir", "symlink", "unlink", "rmdir",
                       "rename", "getattr", "setattr"}
       /\ de \in {last.de, last.de2}
       /\ \/ last.op \in {"getattr", "setattr"}
             /\ Unlinked(last.pre.d_fsdata[de])
          \/ TooLong(CallNames, de))
      => last.reqs = << >> /\ last.ret # OK

\* C3: no call clears the unlinked flag of an entry, be it the entry the
\* call was entered through or the destination of a rename
C3_TombstoneStays ==
    /\ \A de \in Sources :
         (last.op # "none" /\ Unlinked(last.pre.d_fsdata[de]))
         => Unlinked(d_fsdata[de])
    /\ Unlinked(last.new_pre.d_fsdata) => Unlinked(last.new_de.d_fsdata)

\* a remove has succeeded on an entry that was tombstoned already, and the
\* entry is tombstoned still
C3_Witness ==
    /\ Ran(Removes, "x")
    /\ last.ret = OK
    /\ Unlinked(last.pre.d_fsdata["x"])
    /\ Unlinked(d_fsdata["x"])

\* C4: when remove or rmdir returns success the host request has succeeded
\* and the entry is tombstoned; when it returns an error the flags of the
\* entry are as they were
C4_TombstoneIffRemoved ==
    \A de \in Sources :
      Ran(Removes, de)
      => IF last.ret = OK
         THEN Len(last.reqs) = 1 /\ Unlinked(d_fsdata[de])
         ELSE d_fsdata[de] = last.pre.d_fsdata[de]

\* an rmdir has succeeded on an entry that was not tombstoned, and it is now
C4_Witness ==
    /\ Ran({"rmdir"}, "x")
    /\ last.ret = OK
    /\ ~Unlinked(last.pre.d_fsdata["x"])
    /\ Unlinked(d_fsdata["x"])

\* C5, as stated: remove or rmdir on a tombstoned entry is a no-op, never a
\* second successful removal: it makes no host request and does not return
\* success
C5_SecondRemoveStale ==
    \A de \in Sources :
      (Ran(Removes, de) /\ Unlinked(last.pre.d_fsdata[de]))
      => last.reqs = << >> /\ last.ret # OK

\* the requests and the result of a get-attributes entered now through de,
\* for every reply the host can give
NextGetattr(de) ==
    {prlfs_i_revalidate(de, TRUE, TRUE, reply) : reply \in AttrReplies}

\* C6, as stated, for the get-attributes that follows a successful lookup
\* at once on a mount with a non-zero TTL: it makes no host request and
\* returns the attributes the lookup has cached
C6_NoRoundTripAfterLookup ==
    \A de \in Sources :
      (/\ Ran({"lookup"}, de)
       /\ last.ret = OK /\ last.reply.ret = OK
       /\ d_inode[de] # NULL
       /\ sbi.ttl > 0)
      => \A r \in NextGetattr(de) :
           r.reqs = << >> /\ r.ret = OK /\ r.inode = d_inode[de]

\* what installing the reply a into the inode i gives, field by field
Installed(i, a) ==
    [i_fmt |-> i.i_fmt, i_op |-> i.i_op,
     i_size |-> a.size,
     i_blocks |-> ((a.size + PAGE_SIZE - 1) \div PAGE_SIZE) * 8,
     i_atime |-> a.atime, i_mtime |-> a.mtime, i_ctime |-> a.ctime,
     i_perm |-> a.perm,
     i_uid |-> IF a.uid = -1 THEN 65534
               ELSE IF sbi.plain THEN a.uid ELSE i.i_uid,
     i_gid |-> IF a.gid = -1 THEN 65534
               ELSE IF sbi.plain THEN a.gid ELSE i.i_gid,
     i_ino |-> IF sbi.host_inodes THEN a.ino ELSE i.i_ino]

\* every cached field of the inode i has the value of the reply a
Replaced(i, a) ==
    /\ i.i_size = a.size /\ i.i_perm = a.perm
    /\ i.i_atime = a.atime /\ i.i_mtime = a.mtime /\ i.i_ctime = a.ctime
    /\ i.i_uid = a.uid /\ i.i_gid = a.gid /\ i.i_ino = a.ino

\* a get-attributes has run through the entry de, which was not tombstoned
\* and whose timestamp was outside the TTL window
RanExpiredGetattr(de) ==
    /\ Ran({"getattr"}, de)
    /\ ~Unlinked(last.pre.d_fsdata[de])
    /\ ~InWindow(last.pre.d_time[de], jiffies)

C8_BadStaysInconsistent ==
    \A de \in Sources :
      (Ran({"d_revalidate", "getattr"}, de) /\ last.pre.d_inode[de] # NULL)
      => /\ (last.reply.ret = OK
             /\ last.reply.attr.fmt # last.pre.d_inode[de].i_fmt)
            => /\ last.reval = "EIO"
               /\ is_bad_inode(d_inode[de])
               /\ d_inode[de].i_size = last.pre.d_inode[de].i_size
         /\ is_bad_inode(last.pre.d_inode[de]) => last.reval = "EIO"

\* C9: a get-attributes whose host request is answered not-found returns
\* NotFound and leaves the inodes, the timestamps and the flags as they were
C9_NotFoundKeepsState ==
    \A de \in Sources :
      (Ran({"getattr"}, de) /\ last.reply.ret = "ENOENT")
      => /\ last.ret = "ENOENT"
         /\ d_inode = last.pre.d_inode
         /\ d_time = last.pre.d_time
         /\ d_fsdata = last.pre.d_fsdata

\* a get-attributes has been answered not-found, and the entry still has
\* the timestamp of an earlier tick
C9_Witness ==
    /\ Ran({"getattr"}, "x")
    /\ last.reply.ret = "ENOENT"
    /\ last.ret = "ENOENT"
    /\ d_time["x"] # 0 /\ d_time["x"] # jiffies

\* C10: after a rename that has made its host request, whatever the host
\* answered, the source and the destination entry have no timestamp and
\* are outside the TTL window, the next get-attributes through the source
\* goes to the host, and the flags of both are as they were
C10_RenameInvalidatesBoth ==
    (last.op = "rename" /\ last.reqs # << >>)
    => /\ d_time[last.de] = 0 /\ last.new_de.d_time = 0
       /\ ~InWindow(d_time[last.de], jiffies)
       /\ ~InWindow(last.new_de.d_time, jiffies)
       /\ \A r \in NextGetattr(last.de) : r.reqs # << >>
       /\ d_fsdata = last.pre.d_fsdata
       /\ last.new_de.d_fsdata = last.new_pre.d_fsdata

\* a rename the host has rejected has run on two entries that both were
\* within the TTL window
C10_Witness ==
    /\ last.op = "rename" /\ last.ret = "EACCES" /\ last.reqs # << >>
    /\ InWindow(last.pre.d_time[last.de], jiffies)
    /\ InWindow(last.new_pre.d_time, jiffies)
    /\ d_time[last.de] = 0 /\ last.new_de.d_time = 0

\* the path the host is to see for the dentry de under the names given
Composed(names, de) == <<"/">> \o SfName \o MountPath(names, de)

\* C11, as stated: after a successful rename the next get-attributes
\* through the source entry is Stale, or it asks the host about the old
\* path only and does not return success
C11_OldEntryStaleOrNotFound ==
    \A de \in Sources :
      (Ran({"rename"}, de) /\ last.ret = OK /\ ~Unlinked(d_fsdata[de]))
      => \A r \in NextGetattr(de) :
           /\ r.ret # OK
           /\ \A i \in DOMAIN r.reqs :
                r.reqs[i].path = Composed(last.pre.d_name, de)

\* what prlfs_i_revalidate would do if it were entered now through de, for
\* every outcome of its allocations and every reply the host can give
NextRevalidations(de) ==
    {prlfs_i_revalidate(de, m1, m2, reply) :
        m1 \in BOOLEAN, m2 \in BOOLEAN, reply \in AttrReplies}

\* C12: after a set-attributes that has made its host request, whatever the
\* host answered, the entry has no timestamp and is outside the TTL window
\* and is not tombstoned: the next get-attributes through it goes to the
\* host when its allocations succeed, and never returns success without a
\* host request
C12_SetattrExpires ==
    \A de \in Sources :
      (Ran({"setattr"}, de) /\ last.reqs # << >>)
      => /\ d_time[de] = 0
         /\ ~InWindow(d_time[de], jiffies)
         /\ ~Unlinked(d_fsdata[de])
         /\ \A r \in NextGetattr(de) : Len(r.reqs) = 1
         /\ \A r \in NextRevalidations(de) : r.ret = OK => Len(r.reqs) = 1

\* a set-attributes the host has rejected has run through an entry that was
\* within the TTL window
C12_Witness ==
    /\ Ran({"setattr"}, "x")
    /\ last.reqs # << >> /\ last.ret = "EACCES"
    /\ InWindow(last.pre.d_time["x"], jiffies)
    /\ d_time["x"] = 0

\* C13, as stated: for every dentry a call is entered with, the resolver
\* returns the composed path and its length with the terminator when that
\* fits the path buffer, and NameTooLong when it does not
C13_ResolverExactOrTooLong ==
    \A de \in DOMAIN CallNames :
      IF TooLong(CallNames, de)
      THEN prlfs_get_path(CallNames, de, PATH_MAX).ret = "ENAMETOOLONG"
      ELSE /\ prlfs_get_path(CallNames, de, PATH_MAX).ret = OK
           /\ prlfs_get_path(CallNames, de, PATH_MAX).str
                = Composed(CallNames, de)
           /\ prlfs_get_path(CallNames, de, PATH_MAX).plen
                = Len(Composed(CallNames, de)) + 1

\* C14, as stated: a lookup the host answers not-found returns success and
\* leaves a negative entry stamped with the current tick; one the host
\* answers with another error returns that error and installs nothing; one
\* the host answers with attributes installs an inode of the fetched kind
\* with the fetched size, permission bits and times
C14_LookupOutcomes ==
    \A de \in Sources :
      (Ran({"lookup"}, de) /\ Len(last.reqs) = 1)
      => IF last.reply.ret = "ENOENT"
         THEN /\ last.ret = OK
              /\ d_hashed[de] /\ d_inode[de] = NULL /\ d_time[de] = jiffies
         ELSE IF last.reply.ret # OK
         THEN /\ last.ret = last.reply.ret
              /\ ~d_hashed[de]
              /\ d_inode[de] = NULL
              /\ d_time[de] = last.pre.d_time[de]
         ELSE /\ last.ret = OK
              /\ d_hashed[de] /\ d_inode[de] # NULL
              /\ d_inode[de].i_fmt = last.reply.attr.fmt
              /\ d_inode[de].i_size = last.reply.attr.size
              /\ d_inode[de].i_perm = last.reply.attr.perm
              /\ d_inode[de].i_mtime = last.reply.attr.mtime

Creates == {"create", "mkdir", "symlink"}

\* the kind of the inode each of the creating calls makes
CreatedKind(op) ==
    IF op = "create" THEN S_IFREG
    ELSE IF op = "mkdir" THEN S_IFDIR ELSE S_IFLNK

\* C15: create, mkdir and symlink are entered with a negative entry and
\* attach an inode, of their kind, only when the one host request has
\* succeeded; when the host request fails its error is returned and no
\* inode is attached; when the inode cannot be allocated after the host
\* has succeeded the call returns an error and no inode is attached
C15_NodeOnlyAfterHostConfirms ==
    \A de \in Sources :
      Ran(Creates, de)
      => /\ last.pre.d_inode[de] = NULL
         /\ d_inode[de] # NULL
            => /\ last.ret = OK
               /\ Len(last.reqs) = 1 /\ last.reply.ret = OK
               /\ d_inode[de].i_fmt = CreatedKind(last.op)
         /\ last.reply.ret \in HostErrs
            => last.ret = last.reply.ret /\ d_inode[de] = NULL
         /\ last.ret # OK => d_inode[de] = NULL
         /\ (last.reply.ret = OK /\ d_inode[de] = NULL) => last.ret = "ENOSPC"

\* a mkdir the host has rejected has left the entry negative
C15_Witness ==
    /\ Ran({"mkdir"}, "x")
    /\ Len(last.reqs) = 1 /\ last.reply.ret = "EACCES"
    /\ last.ret = "EACCES"
    /\ d_inode["x"] = NULL

\* C16, as stated: on a mount with a non-zero TTL the get-attributes that
\* follows a successful create at once makes no host request
C16_FreshAfterCreate ==
    \A de \in Sources :
      (Ran({"create"}, de) /\ last.ret = OK /\ sbi.ttl > 0)
      => \A r \in NextGetattr(de) : r.reqs = << >>

\* C16, amended: after a successful create the entry has an inode and no
\* timestamp and is outside the TTL window: the next get-attributes through
\* it goes to the host when its allocations succeed, and never returns
\* success without a host request
C16_ExpiredAfterCreate ==
    \A de \in Sources :
      (Ran({"create"}, de) /\ last.ret = OK)
      => /\ d_inode[de] # NULL
         /\ d_time[de] = 0
         /\ ~InWindow(d_time[de], jiffies)
         /\ \A r \in NextGetattr(de) : Len(r.reqs) = 1
         /\ \A r \in NextRevalidations(de) : r.ret = OK => Len(r.reqs) = 1

\* a create has succeeded through an entry whose timestamp, left by the
\* lookup, was within the TTL window
C16_Witness ==
    /\ Ran({"create"}, "x")
    /\ last.ret = OK
    /\ InWindow(last.pre.d_time["x"], jiffies)
    /\ d_time["x"] = 0

\* the verbs whose host failures are to be handed back as they are
Verbs ==
    {"create", "mkdir", "unlink", "rmdir", "rename", "getattr", "setattr",
     "symlink", "readlink", "readpage", "writepage", "write_end", "statfs"}

\* C17, as stated: when the host request of a verb fails with an error the
\* verb returns that error
C17_HostErrorVerbatim ==
    (last.op \in Verbs /\ last.reply.ret \in HostErrs)
    => last.ret = last.reply.ret

\* the verbs of which none is to repeat a host request
SingleRequestVerbs ==
    {"create", "mkdir", "unlink", "rmdir", "rename", "lookup", "getattr",
     "setattr", "symlink", "readlink", "statfs"}

\* C18: a call of one of these verbs makes at most one host request,
\* whether the host answers it with success or with an error
C18_AtMostOneRequest ==
    last.op \in SingleRequestVerbs => Len(last.reqs) <= 1

\* an rmdir has made its one request, the host has answered it with an
\* error, and the call has returned that error
C18_Witness ==
    /\ Ran({"rmdir"}, "x")
    /\ last.reply.ret = "EACCES" /\ last.ret = "EACCES"
    /\ Len(last.reqs) = 1

\* C19: the check of the flag and the host request are not one atomic
\* step.  A get-attributes that has passed check_dentry goes on without
\* looking at the flag again: it never answers ESTALE, and when the entry
\* has expired and the path and the buffers are there it sends its one
\* request for the path the dentry had, also when a remove has set the
\* flag in between.
C19_CheckThenRequestNotAtomic ==
    \A de \in Sources :
        Ran({"getattr_late"}, de) =>
            /\ last.ret # "ESTALE"
            /\ (/\ ~InWindow(last.pre.d_time[de], jiffies)
                /\ last.ret \notin {"ENOMEM", "ENAMETOOLONG"})
               => /\ Len(last.reqs) = 1
                  /\ last.reqs[1].kind = "attr_get"

\* A remove has succeeded between the check and the request, and the
\* get-attributes has still sent its request for the removed path.
C19_Witness ==
    \E de \in Sources :
        /\ Ran({"getattr_late"}, de)
        /\ Unlinked(last.pre.d_fsdata[de])
        /\ Len(last.reqs) = 1
        /\ last.reqs[1].path = Composed(last.pre.d_name, de)
        /\ last.ret # "ESTALE"

\* the larger of two sizes
MaxOf(a, b) == IF a > b THEN a ELSE b

\* C20, as stated: a write changes the size in memory only after the host
\* has confirmed the bytes: a failed write leaves the size as it was, and
\* a successful one makes it the larger of the old size and the position
\* plus the bytes the host has confirmed
C20_SizeFollowsConfirmedBytes ==
    \A de \in Sources :
        Ran({"write_end"}, de) =>
            d_inode[de].i_size =
                IF last.ret = OK
                THEN MaxOf(last.pre.d_inode[de].i_size,
                           last.stat.pos + last.stat.written)
                ELSE last.pre.d_inode[de].i_size

\* C21: a page read that the host answers with n bytes leaves the bytes
\* from n to the end of the page zero and marks the page up to date; a
\* page read whose request fails returns an error and leaves the page as
\* it was, not up to date
C21_ShortReadZeroFilled ==
    \A de \in Sources :
        (Ran({"readpage"}, de) /\ Len(last.reqs) = 1) =>
            IF last.reply.ret = OK
            THEN /\ last.ret = OK
                 /\ last.page.uptodate
                 /\ \A i \in 1..PAGE_SIZE :
                       last.page.data[i] =
                           IF i <= last.stat.read THEN "host" ELSE "zero"
            ELSE /\ last.ret # OK
                 /\ last.page = last.page_pre
                 /\ ~last.page.uptodate

\* a page read has been answered with fewer bytes than a page
C21_Witness ==
    \E de \in Sources :
        /\ Ran({"readpage"}, de)
        /\ Len(last.reqs) = 1 /\ last.reply.ret = OK
        /\ last.stat.read > 0 /\ last.stat.read < PAGE_SIZE
        /\ last.page_pre.data[PAGE_SIZE] = "stale"
        /\ last.page.data[PAGE_SIZE] = "zero"

\* C22, as stated: the block size, the total, free and available blocks a
\* statfs returns are the values the host has reported in the reply to the
\* request of that call
C22_StatfsHostReported ==
    (last.op = "statfs" /\ last.ret = OK) =>
        /\ Len(last.reqs) = 1
        /\ last.reply.ret = OK
        /\ last.stat.f_bsize = last.reply.fs.bsize
        /\ last.stat.f_blocks = last.reply.fs.blocks
        /\ last.stat.f_bavail = last.reply.fs.bavail
        /\ last.stat.f_bfree = last.reply.fs.bavail

\* the field of the inode is as the call found it
Kept(de, f) == d_inode[de][f] = last.pre.d_inode[de][f]

\* the reply of the call carries the validity bit
Valid(b) == b \in last.reply.attr.valid

\* C23: installing a reply changes only the fields whose validity bit is
\* set, and sets the size, the times and the permission bits to the
\* reply's; it never changes the kind; an owner or group of -1 is stored
\* as the nobody/nogroup id, never as -1; the inode number is taken only
\* when the mount has negotiated host inode numbers
C23_InstallTouchesOnlyValid ==
    \A de \in Sources :
        Ran({"change_attributes"}, de) =>
            /\ Kept(de, "i_fmt") /\ Kept(de, "i_op")
            /\ IF Valid("_PATTR_SIZE")
               THEN d_inode[de].i_size = last.reply.attr.size
               ELSE Kept(de, "i_size") /\ Kept(de, "i_blocks")
            /\ IF Valid("_PATTR_ATIME")
               THEN d_inode[de].i_atime = last.reply.attr.atime
               ELSE Kept(de, "i_atime")
            /\ IF Valid("_PATTR_MTIME")
               THEN d_inode[de].i_mtime = last.reply.attr.mtime
               ELSE Kept(de, "i_mtime")
            /\ IF Valid("_PATTR_CTIME")
               THEN d_inode[de].i_ctime = last.reply.attr.ctime
               ELSE Kept(de, "i_ctime")
            /\ IF Valid("_PATTR_MODE")
               THEN d_inode[de].i_perm = last.reply.attr.perm
               ELSE Kept(de, "i_perm")
            /\ IF Valid("_PATTR_UID")
               THEN /\ last.reply.attr.uid = -1
                       => d_inode[de].i_uid = PRLFS_UID_NOBODY
                    /\ d_inode[de].i_uid # -1
               ELSE Kept(de, "i_uid")
            /\ IF Valid("_PATTR_GID")
               THEN /\ last.reply.attr.gid = -1
                       => d_inode[de].i_gid = PRLFS_GID_NOGROUP
                    /\ d_inode[de].i_gid # -1
               ELSE Kept(de, "i_gid")
            /\ IF Valid("_PATTR2_INO") /\ sbi.host_inodes
               THEN d_inode[de].i_ino = last.reply.attr.ino
               ELSE Kept(de, "i_ino")

\* a reply with some bits set and some clear, an owner of -1 and another
\* kind than the inode's has been installed on a mount without host inode
\* numbers
C23_Witness ==
    \E de \in Sources :
        /\ Ran({"change_attributes"}, de)
        /\ Valid("_PATTR_UID") /\ last.reply.attr.uid = -1
        /\ Valid("_PATTR_MODE") /\ ~Valid("_PATTR_SIZE")
        /\ Valid("_PATTR2_INO") /\ ~sbi.host_inodes
        /\ last.reply.attr.fmt # last.pre.d_inode[de].i_fmt
        /\ last.reply.attr.size # last.pre.d_inode[de].i_size
        /\ d_inode[de].i_uid = PRLFS_UID_NOBODY

\* the bit of the wire request that tags a field of the iattr
PattrBitOf(b) ==
    CASE b = "ATTR_SIZE" -> "_PATTR_SIZE"
      [] b = "ATTR_ATIME" -> "_PATTR_ATIME"
      [] b = "ATTR_MTIME" -> "_PATTR_MTIME"
      [] b = "ATTR_CTIME" -> "_PATTR_CTIME"
      [] b = "ATTR_MODE" -> "_PATTR_MODE"
      [] b = "ATTR_UID" -> "_PATTR_UID"
      [] b = "ATTR_GID" -> "_PATTR_GID"

\* the fields of an iattr that go into the request: the two times only
\* when both are asked for
Requested(ia_valid) ==
    {b \in ia_valid :
        b \in {"ATTR_ATIME", "ATTR_MTIME"}
            => {"ATTR_ATIME", "ATTR_MTIME"} \subseteq ia_valid}

\* C24, as stated: the validity mask of a set-attributes request has the
\* bit of every requested field and of no other field, whatever the
\* combination of fields the caller asks to change
C24_MaskTagsEachField ==
    \A de \in Sources :
        (Ran({"setattr"}, de) /\ Len(last.reqs) = 1) =>
            last.reqs[1].arg.valid =
                {PattrBitOf(b) : b \in Requested(last.stat.iattr.ia_valid)}

\* a get-attributes has run on a mount with ttl = 0 through an entry that
\* is not tombstoned
RanZeroTtlGetattr(de) ==
    /\ Ran({"getattr"}, de)
    /\ ~Unlinked(last.pre.d_fsdata[de])
    /\ sbi.ttl = 0

Untouched(de) ==
    /\ d_time[de] = last.pre.d_time[de]
    /\ d_inode[de] = last.pre.d_inode[de]
    /\ d_fsdata[de] = last.pre.d_fsdata[de]

\* C26, as stated: for a path that fits the buffer, a successful symlink
\* leaves the host holding exactly the text it was given for the path,
\* and a read of the link that the host answers returns exactly the text
\* the host holds for the path; the read changes neither the timestamp of
\* the entry nor the inode, and never returns a text without a request
C26_SymlinkRoundTrip ==
    \A de \in Sources :
        /\ (Ran({"symlink"}, de) /\ last.ret = OK
            /\ ~TooLong(d_name, de))
           => LinkAt(host_link, Composed(d_name, de)) = last.stat.symname
        /\ (Ran({"readlink"}, de) /\ ~TooLong(d_name, de))
           => /\ Untouched(de)
              /\ last.ret = OK => Len(last.reqs) = 1
              /\ (last.reqs # << >> /\ last.reply.ret = OK)
                 => /\ last.ret = OK
                    /\ last.stat.link =
                          LinkAt(host_link, Composed(d_name, de))

\* the call has changed a cached field of an inode that was there before
\* it and is there after it
ChangedNode(de) ==
    /\ last.op # "none"
    /\ last.pre.d_inode[de] # NULL /\ d_inode[de] # NULL
    /\ d_inode[de] # last.pre.d_inode[de]

InodeFields ==
    {"i_fmt", "i_op", "i_size", "i_blocks", "i_atime", "i_mtime", "i_ctime",
     "i_perm", "i_uid", "i_gid", "i_ino"}

\* the fields of the inode of de the call has changed
ChangedFields(de) ==
    {f \in InodeFields : d_inode[de][f] # last.pre.d_inode[de][f]}

\* the fields of the inode a set-attributes with the mask v may set
IattrFields(v) ==
    (IF "ATTR_SIZE" \in v THEN {"i_size"} ELSE {})
    \cup (IF "ATTR_ATIME" \in v THEN {"i_atime"} ELSE {})
    \cup (IF "ATTR_MTIME" \in v THEN {"i_mtime"} ELSE {})
    \cup (IF "ATTR_CTIME" \in v THEN {"i_ctime"} ELSE {})
    \cup (IF "ATTR_MODE" \in v THEN {"i_perm"} ELSE {})
    \cup (IF "ATTR_UID" \in v THEN {"i_uid"} ELSE {})
    \cup (IF "ATTR_GID" \in v THEN {"i_gid"} ELSE {})

\* the calls that go through prlfs_i_revalidate
Revalidations == {"getattr", "getattr_late", "d_revalidate"}

\* C27, as stated: the cached attributes of an existing inode change only
\* in a successful revalidation; no write, set-attributes, rename, remove
\* or create changes a cached field
C27_OnlyRevalidationChanges ==
    \A de \in Sources :
        ChangedNode(de) =>
            /\ last.op \in {"getattr", "d_revalidate"}
            /\ last.reval = OK

\* C27, amended: the cached attributes of an existing inode change only
\* in a revalidation the host has answered (the reply is installed, or
\* the inode is marked bad when the reply is of another kind), in a
\* set-attributes the host has confirmed (only requested fields change),
\* and in a successful write (only the size changes, and it grows); no
\* rename, remove, create, read or statfs changes a cached field
C27_ChangesOnlyWhenHostConfirms ==
    \A de \in Sources :
        ChangedNode(de) =>
            \/ /\ last.op \in Revalidations
               /\ last.reval = OK /\ last.reply.ret = OK
               /\ d_inode[de] =
                     Installed(last.pre.d_inode[de], last.reply.attr)
            \/ /\ last.op \in Revalidations
               /\ last.reval = "EIO" /\ last.reply.ret = OK
               /\ last.reply.attr.fmt # last.pre.d_inode[de].i_fmt
               /\ is_bad_inode(d_inode[de])
               /\ ChangedFields(de) \subseteq {"i_fmt", "i_op"}
            \/ /\ last.op = "setattr"
               /\ last.ret = OK /\ last.reply.ret = OK
               /\ ChangedFields(de)
                     \subseteq IattrFields(last.stat.iattr.ia_valid)
            \/ /\ last.op = "write_end"
               /\ last.ret = OK /\ last.reply.ret = OK
               /\ ChangedFields(de) = {"i_size"}
               /\ d_inode[de].i_size > last.pre.d_inode[de].i_size

\* a write has raised the cached size of the inode
C27_Witness ==
    \E de \in Sources :
        /\ ChangedNode(de)
        /\ last.op = "write_end"
        /\ d_inode[de].i_size > last.pre.d_inode[de].i_size

\* the thaw-all job has run: the worker is at the end of thaw_all, the
\* list is empty and every superblock it found in the list is thawed
JobRan ==
    /\ task[Worker].pc = "ta_unlock"
    /\ frozen_sb = << >>
    /\ \A i \in 1..Len(task[Worker].found) :
         ~s_bdev[task[Worker].found[i]]

\* C29: a pending timer does not stay pending; it stops being pending
\* only when it fires, which queues the thaw-all job, or when the
\* del_timer_sync of a '#' command or of the unload cancels it; and a
\* queued job eventually has run, with every superblock it found frozen
\* thawed and the list empty.
C29_ArmedTimerThawsAll ==
    /\ thaw_timer ~> ~thaw_timer
    /\ [][thaw_timer /\ ~thaw_timer'
            => thaw_work' \/ \E c \in Cancellers : DelTimer(c)]_vars
    /\ thaw_work ~> JobRan

\* the job has run after a 't' command armed the timer and found a frozen
\* superblock
C29_Witness == JobRan /\ task[Worker].found # << >>

\* the places in the code between a mutex_lock(&frozen_mutex) and its
\* mutex_unlock, where the list is walked or changed
InsideList == {"pp_unlock", "ta_unlock", "arm_unlock", "seq_show", "seq_stop"}

Inside(c) == task[c].pc \in InsideList

\* C30: a task that is walking or changing the frozen list holds
\* frozen_mutex, so no two tasks are inside the list at once; the listing
\* sees one and the same list from seq_start to seq_stop; and a task that
\* is outside the list again has released the mutex.
C30_ListGuardedByMutex ==
    /\ \A c \in DOMAIN task : Inside(c) <=> frozen_mutex = c
    /\ \A c, d \in DOMAIN task : Inside(c) /\ Inside(d) => c = d
    /\ task[Reader].pc \in {"seq_show", "seq_stop"}
         => task[Reader].found = frozen_sb
    /\ task[Reader].pc = "seq_stop" => task[Reader].thawed = frozen_sb

\* the listing holds the mutex while a writer and the worker wait for it
C30_Witness ==
    /\ task[Reader].pc = "seq_stop" /\ frozen_sb # << >>
    /\ task[Worker].pc = "ta_lock"
    /\ \E c \in Writers : task[c].pc = "pp_lock"

\* the step in which the '#' command or the unload of task c completes:
\* its cancel_timeout returns
Completes(c) ==
    /\ task[c].pc # "done" /\ task'[c].pc = "done"
    /\ task'[c].cmd \in {"#", "unload"}

\* after the step every superblock the thaw_all of c found in the list
\* has been thawed once, the list is empty, the timer is not pending and
\* the work item is not queued
AllStopped(c) ==
    /\ task'[c].thawed = task'[c].found
    /\ frozen_sb' = << >>
    /\ ~thaw_timer'
    /\ ~thaw_work'

\* C28 as stated: when a '#' command or the module unload completes,
\* every device that was in the frozen list has been thawed exactly once,
\* the list is empty, the timer is not pending and no thaw job is queued.
C28_ThawAllStopsEverything ==
    [][\A c \in Cancellers : Completes(c) => AllStopped(c)]_vars

\* C28 amended: the same when no other command has frozen a device or
\* armed the timer while the '#' command ran (nothing can during the
\* unload); in every case the devices its thaw_all found have been
\* thawed exactly once.
C28_ThawAllStopsUnlessCrossed ==
    [][\A c \in Cancellers :
         Completes(c) =>
           /\ task'[c].thawed = task'[c].found
           /\ ~task'[c].crossed => AllStopped(c)
           /\ task'[c].cmd = "unload" => ~task'[c].crossed]_vars

\* a '#' command has completed undisturbed after it found two frozen
\* superblocks and a pending timer
C28_Witness ==
    \E c \in Writers :
      /\ task[c].pc = "done" /\ task[c].cmd = "#" /\ ~task[c].crossed
      /\ Len(task[c].found) = 2
      /\ frozen_sb = << >> /\ ~thaw_timer /\ ~thaw_work

\* the list and the devices stay as they are in the step
ListKept == frozen_sb' = frozen_sb /\ s_bdev' = s_bdev

\* C31: the frozen list holds each superblock at most once, and holds a
\* superblock exactly when the helper has frozen its device and not
\* thawed it since; a freeze of a listed superblock returns -EEXIST and a
\* freeze that fails for another reason adds nothing, a thaw of a
\* superblock that is not listed returns -ENOENT, and each of them leaves
\* the list and the devices as they were.
C31_ListIsTheFrozenSet ==
    /\ [](/\ \A i, j \in 1..Len(frozen_sb) :
               frozen_sb[i] = frozen_sb[j] => i = j
          /\ \A sb \in Sbs : InList(frozen_sb, sb) <=> s_bdev[sb])
    /\ [][\A c \in Writers :
            ProcessPath(c) =>
              /\ task[c].cmd = "+" /\ InList(frozen_sb, task[c].sb)
                   => task'[c].ret = "EEXIST" /\ ListKept
              /\ task[c].cmd = "+" /\ task'[c].ret # OK => ListKept
              /\ task[c].cmd = "+" /\ task'[c].ret = OK
                   => frozen_sb' = Append(frozen_sb, task[c].sb)
              /\ task[c].cmd = "-" /\ ~InList(frozen_sb, task[c].sb)
                   => task'[c].ret = "ENOENT" /\ ListKept
              /\ task[c].cmd = "-" /\ InList(frozen_sb, task[c].sb)
                   => /\ task'[c].ret = OK
                      /\ ~InList(frozen_sb', task[c].sb)
                      /\ ~s_bdev'[task[c].sb]]_vars

\* a freeze of a listed superblock has returned -EEXIST while both
\* superblocks are in the list
C31_Witness ==
    \E c \in Writers :
      /\ task[c].pc = "pp_unlock" /\ task[c].cmd = "+"
      /\ task[c].ret = "EEXIST"
      /\ Len(frozen_sb) = 2

\* the number of a 't' command is malformed: it has no digit, or a
\* character that is not a digit
Malformed(arg) ==
    arg = << >> \/ \E i \in 1..Len(arg) : DigitOf(arg[i]) < 0

\* C32: a 't<seconds>' command with a malformed number returns -EINVAL and
\* arms nothing; one issued while the timer is pending returns -EBUSY and
\* leaves the deadline as it is; one issued when no timer is pending arms
\* the timer for the given number of seconds.
C32_OneTimeoutArmed ==
    [][\A c \in Writers :
         /\ StartArm(c) /\ Malformed(task'[c].arg) =>
              task'[c].pc = "done" /\ task'[c].ret = "EINVAL"
         /\ ArmTimeout(c) =>
              /\ ~Malformed(task[c].arg)
              /\ IF thaw_timer
                 THEN /\ task'[c].ret = "EBUSY"
                      /\ thaw_timer' /\ expires' = expires
                 ELSE /\ task'[c].ret = OK
                      /\ thaw_timer'
                      /\ expires' = jiffies + HZ * simple_strtoul(task[c].arg,
                                                                  0).val]_vars

\* the set-attributes that has just run through de was refused: the host
\* rejected the request, or the entry was tombstoned, or its composed
\* path does not fit the path buffer
Refused(de) ==
    \/ last.reqs # << >> /\ last.reply.ret # OK
    \/ Unlinked(last.pre.d_fsdata[de])
    \/ TooLong(last.pre.d_name, de)

\* C33: a set-attributes changes the in-core attributes of the inode only
\* when the host accepted the request; when the host rejects it, or the
\* entry is tombstoned, or the path is too long, the inode is as it was
\* and the call returns the error.
C33_SetattrOnlyWhenHostAccepts ==
    \A de \in Sources :
      Ran({"setattr"}, de) =>
        /\ d_inode[de] # last.pre.d_inode[de] =>
             last.reqs # << >> /\ last.reply.ret = OK
        /\ Refused(de) =>
             /\ d_inode[de] = last.pre.d_inode[de]
             /\ last.ret # OK
             /\ last.reqs # << >> => last.ret = last.reply.ret

\* the number a text of decimal digits writes, without a bound
RECURSIVE DecimalValue(_)
DecimalValue(val) ==
    IF val = << >> THEN 0
    ELSE DecimalValue(SubSeq(val, 1, Len(val) - 1)) * 10
         + DigitOf(val[Len(val)])

\* the text is a number an unsigned can hold: one digit or more, nothing
\* but digits, and a value below 2^UintBits
FitsUnsigned(val) ==
    /\ val # << >>
    /\ \A i \in 1..Len(val) : DigitOf(val[i]) >= 0
    /\ DecimalValue(val) < 2 ^ UintBits

\* the field of sbi the option opt of the mount command sets
OptionField(opt) ==
    IF opt = "ttl" THEN sbi.ttl ELSE IF opt = "uid" THEN sbi.uid ELSE sbi.gid

\* C34: the mount succeeds on a numeric option (ttl, uid, gid) only when
\* its value is a non-empty text of decimal digits whose number fits an
\* unsigned, and the option then has that number; on an empty text, a
\* character that is not a digit or a number that overflows the mount
\* fails with -EINVAL, and no wrapped-around value is taken.
C34_NumericOptionsExact ==
    last.op = "mount" =>
      IF FitsUnsigned(sbi.ttl_opt.val)
      THEN /\ last.ret = OK
           /\ OptionField(sbi.ttl_opt.opt) = DecimalValue(sbi.ttl_opt.val)
      ELSE last.ret = "EINVAL"

\* a lookup or a get-attributes has just fetched the attributes of de from
\* the host with success, at the tick jiffies
Fetched(de) ==
    /\ Ran({"lookup", "getattr"}, de)
    /\ last.ret = OK
    /\ last.reqs # << >> /\ last.reply.ret = OK
    /\ d_inode[de] # NULL

\* C35: an entry fetched at the tick t, be it 0 or the last tick before
\* the counter wraps, is fresh at exactly the ticks t' with
\* (t' - t) mod JiffiesMod < ttl and expired at the others; at t itself
\* a get-attributes answers from the cache exactly when ttl > 0.
C35_FreshByElapsedTicks ==
    \A de \in Sources :
      Fetched(de) =>
        /\ \A now \in 0..(JiffiesMod - 1) :
             InWindow(d_time[de], now)
             <=> (now - jiffies) % JiffiesMod < sbi.ttl
        /\ \A r \in NextGetattr(de) : r.reqs = << >> <=> sbi.ttl > 0
====
